---------------------------- MODULE Spec2Model ----------------------------
(***************************************************************************)
(* Volatility-Harvester: the trading-decision core (strategy signal state  *)
(* machine, risk circuit breakers, maker-first execution engine, ledger)   *)
(* and the paper / live / backtest drivers that run it.                    *)
(*                                                                         *)
(* Numbers.  The code computes with decimal.Decimal.  Here                 *)
(*   - a percentage is an integer number of hundredths of a percent        *)
(*     (5.0 % is 500), and a percentage the code obtains by a division     *)
(*     (drawdown, drop, rise, spread) is kept as the exact fraction        *)
(*     [n, d] or compared by cross-multiplication, so no rounding is       *)
(*     introduced by the model;                                            *)
(*   - a time is an integer number of seconds, a date is time \div 86400;  *)
(*   - None is the string "None" where the value is a text or an enum, and *)
(*     Null (-1) where it is an Optional price, percentage or time, all of *)
(*     which are never negative.                                           *)
(***************************************************************************)
EXTENDS Integers, Sequences, FiniteSets, TLC

VARIABLES
    state,      \* StrategyStateData (app/core/models.py)
    risk,       \* RiskManager: daily_pnl, daily_pnl_reset_time
    market,     \* the MarketData snapshot of the current call / iteration
    candles,    \* the candle window handed to generate_signal (a summary; len = Null for None)
    heartbeat,  \* exchange.last_heartbeat (Null or a time)
    now,        \* datetime.utcnow()
    strategy,   \* the VolatilityHarvester instance (thresholds, adaptive)
    settings,   \* the settings the runs differ in: use_trend_filter, maker_first
    ret,        \* the last call of the function under study: its name, the
                \* value it returned and the arguments it was given
    exchange,   \* the exchange behind the adapter: balances and orders
    engine,     \* the running execute_buy / execute_sell call of ExecutionEngine
    portfolio,  \* Portfolio: cash, btc, initial_equity, realized_pnl
    driver      \* the trading session: which driver, its loop, what it did last

vars == <<state, risk, market, candles, heartbeat, now, strategy, settings, ret,
          exchange, engine, portfolio, driver>>

None == "None"
Null == 0 - 1

(***************************************************************************)
(* Settings (app/core/config.py), percentages in hundredths of a percent.  *)
(***************************************************************************)
buy_threshold_pct == 500
sell_threshold_pct == 500
min_swing_pct == 200
max_swing_pct == 800
reserve_pct == 800
max_drawdown_pct == 2000
max_consecutive_losses == 5
daily_loss_limit_pct == 1000
min_activity_pct == 200
max_activity_pct == 1000
max_spread_bps == 10
max_ws_stale_seconds == 5
ma_long == 200
SecondsPerDay == 86400

(***************************************************************************)
(* Exact fractions for the percentages the code obtains by division.       *)
(* Frac(n, d) is n / d, kept unreduced; d > 0.                             *)
(***************************************************************************)
Frac(n, d) == [n |-> n, d |-> d]
Zero == Frac(0, 1)
FracGE(f, k) == f.n >= k * f.d      \* f >= k, for d > 0
FracLE(f, k) == f.n <= k * f.d
FracEq(f, g) == f.n * g.d = g.n * f.d
Abs(x) == IF x < 0 THEN -x ELSE x
DateOf(t) == t \div SecondsPerDay

(***************************************************************************)
(* MarketData (app/core/models.py): mid and spread_bps are properties.     *)
(* Prices are integers; bid + ask is kept even so that mid is an integer.  *)
(***************************************************************************)
MarketData(bid, ask) == [bid |-> bid, ask |-> ask]
Mid(md) == (md.bid + md.ask) \div 2
\* spread_bps > k, i.e. (ask - bid) / mid * 10000 > k; mid = 0 gives spread 0
SpreadBpsGT(md, k) ==
    IF Mid(md) = 0 THEN 0 > k
    ELSE (md.ask - md.bid) * 10000 > k * Mid(md)

(***************************************************************************)
(* StrategyStateData as created by its dataclass defaults.                 *)
(***************************************************************************)
StrategyStateData ==
    [ state |-> "flat",
      last_peak |-> Null, last_trough |-> Null,
      last_buy_price |-> Null, last_sell_price |-> Null,
      current_position_qty |-> 0,
      realized_pnl |-> 0, unrealized_pnl |-> 0,
      total_equity |-> 0, peak_equity |-> 0,
      current_drawdown_pct |-> Zero,
      consecutive_losses |-> 0, consecutive_wins |-> 0,
      total_trades |-> 0, winning_trades |-> 0,
      atr_pct |-> Null,
      adaptive_buy_threshold |-> Null, adaptive_sell_threshold |-> Null,
      paused |-> FALSE, pause_reason |-> None,
      last_update |-> 0 ]


(***************************************************************************)
(* RiskManager (app/core/risk.py).  Every check returns (should_pause,     *)
(* reason); the reason texts are the code's messages without their         *)
(* formatted numbers.                                                      *)
(***************************************************************************)
RiskManager == [daily_pnl |-> 0, daily_pnl_reset_time |-> Null]

Result(p, r) == [pause |-> p, reason |-> r]
NoPause == Result(FALSE, None)

check_drawdown(s) ==
    IF s.peak_equity = 0 THEN NoPause
    ELSE IF FracGE(s.current_drawdown_pct, max_drawdown_pct)
         THEN Result(TRUE, "Drawdown exceeds limit")
         ELSE NoPause

check_consecutive_losses(s) ==
    IF s.consecutive_losses >= max_consecutive_losses
    THEN Result(TRUE, "Consecutive losses exceeds limit")
    ELSE NoPause

\* the first half of check_daily_loss_limit: the reset at a new UTC date
reset_daily_pnl(r, t) ==
    IF r.daily_pnl_reset_time = Null \/ DateOf(t) > DateOf(r.daily_pnl_reset_time)
    THEN [daily_pnl |-> 0, daily_pnl_reset_time |-> t]
    ELSE r

\* the second half, on the counter as the reset left it
check_daily_loss_limit(r, s) ==
    IF s.total_equity = 0 THEN NoPause
    ELSE IF r.daily_pnl < 0
            /\ Abs(r.daily_pnl) * 10000 >= daily_loss_limit_pct * Abs(s.total_equity)
         THEN Result(TRUE, "Daily loss exceeds limit")
         ELSE NoPause

update_daily_pnl(r, pnl) == [r EXCEPT !.daily_pnl = @ + pnl]

check_volatility_bounds(atr_pct) ==
    IF atr_pct = Null THEN NoPause
    ELSE IF atr_pct < min_activity_pct
         THEN Result(TRUE, "ATR below minimum (too choppy)")
         ELSE IF atr_pct > max_activity_pct
              THEN Result(TRUE, "ATR above maximum (too volatile)")
              ELSE NoPause

check_spread(md) ==
    IF SpreadBpsGT(md, max_spread_bps)
    THEN Result(TRUE, "Spread exceeds limit")
    ELSE NoPause

check_stale_data(last_heartbeat, t) ==
    IF last_heartbeat = Null THEN Result(TRUE, "No heartbeat received")
    ELSE IF t - last_heartbeat > max_ws_stale_seconds
         THEN Result(TRUE, "Data stale")
         ELSE NoPause

Breaker(p, cb, text, r) == [pause |-> p, cb |-> cb, text |-> text, risk |-> r]

\* mutant of check_all_circuit_breakers: the spread guard is asked before
\* the volatility band
check_all_spread_first(r, s, md, last_heartbeat, t) ==
    LET r1 == reset_daily_pnl(r, t) IN
    IF check_drawdown(s).pause
    THEN Breaker(TRUE, "max_drawdown", check_drawdown(s).reason, r)
    ELSE IF check_consecutive_losses(s).pause
    THEN Breaker(TRUE, "consecutive_losses", check_consecutive_losses(s).reason, r)
    ELSE IF check_daily_loss_limit(r1, s).pause
    THEN Breaker(TRUE, "daily_loss_limit", check_daily_loss_limit(r1, s).reason, r1)
    ELSE IF check_spread(md).pause
    THEN Breaker(TRUE, "spread_too_wide", check_spread(md).reason, r1)
    ELSE IF check_volatility_bounds(s.atr_pct).pause
    THEN Breaker(TRUE,
                 IF check_volatility_bounds(s.atr_pct).reason
                        = "ATR below minimum (too choppy)"
                 THEN "low_volatility" ELSE "high_volatility",
                 check_volatility_bounds(s.atr_pct).reason, r1)
    ELSE IF check_stale_data(last_heartbeat, t).pause
    THEN Breaker(TRUE, "stale_data", check_stale_data(last_heartbeat, t).reason, r1)
    ELSE Breaker(FALSE, None, None, r1)

\* (should_pause, reason_enum, reason_text) and the risk manager as the call
\* leaves it: the daily counter is reset only when the first two breakers
\* have not returned
check_all_circuit_breakers(r, s, md, last_heartbeat, t) ==
    LET r1 == reset_daily_pnl(r, t) IN
    IF check_drawdown(s).pause
    THEN Breaker(TRUE, "max_drawdown", check_drawdown(s).reason, r)
    ELSE IF check_consecutive_losses(s).pause
    THEN Breaker(TRUE, "consecutive_losses", check_consecutive_losses(s).reason, r)
    ELSE IF check_daily_loss_limit(r1, s).pause
    THEN Breaker(TRUE, "daily_loss_limit", check_daily_loss_limit(r1, s).reason, r1)
    ELSE IF check_volatility_bounds(s.atr_pct).pause
    THEN Breaker(TRUE,
                 IF check_volatility_bounds(s.atr_pct).reason
                        = "ATR below minimum (too choppy)"
                 THEN "low_volatility" ELSE "high_volatility",
                 check_volatility_bounds(s.atr_pct).reason, r1)
    ELSE IF check_spread(md).pause
    THEN Breaker(TRUE, "spread_too_wide", check_spread(md).reason, r1)
    ELSE IF check_stale_data(last_heartbeat, t).pause
    THEN Breaker(TRUE, "stale_data", check_stale_data(last_heartbeat, t).reason, r1)
    ELSE Breaker(FALSE, None, None, r1)

Flatten(f, text, r) == [flatten |-> f, text |-> text, risk |-> r]

\* mutant of should_flatten_position: stale data alone decides, whoever wins
should_flatten_any_stale(r, s, md, last_heartbeat, t) ==
    LET b == check_all_circuit_breakers(r, s, md, last_heartbeat, t) IN
    IF b.pause /\ (b.cb = "max_drawdown" \/ check_stale_data(last_heartbeat, t).pause)
    THEN Flatten(TRUE, b.text, b.risk)
    ELSE Flatten(FALSE, None, b.risk)

should_flatten_position(r, s, md, last_heartbeat, t) ==
    LET b == check_all_circuit_breakers(r, s, md, last_heartbeat, t) IN
    IF b.pause /\ b.cb \in {"max_drawdown", "stale_data"}
    THEN Flatten(TRUE, b.text, b.risk)
    ELSE Flatten(FALSE, None, b.risk)

\* update_drawdown measuring the drawdown against the peak it was called with
update_drawdown_from_old_peak(s) ==
    IF s.total_equity > s.peak_equity
    THEN [s EXCEPT !.peak_equity = s.total_equity,
                   !.current_drawdown_pct =
                       IF s.peak_equity > 0
                       THEN Frac((s.peak_equity - s.total_equity) * 10000, s.peak_equity)
                       ELSE Zero]
    ELSE IF s.peak_equity > 0
         THEN [s EXCEPT !.current_drawdown_pct =
                  Frac((s.peak_equity - s.total_equity) * 10000, s.peak_equity)]
         ELSE s

\* RiskManager.update_drawdown
update_drawdown(s) ==
    IF s.total_equity > s.peak_equity
    THEN [s EXCEPT !.peak_equity = s.total_equity, !.current_drawdown_pct = Zero]
    ELSE IF s.peak_equity > 0
         THEN [s EXCEPT !.current_drawdown_pct =
                  Frac((s.peak_equity - s.total_equity) * 10000, s.peak_equity)]
         ELSE s

(***************************************************************************)
(* VolatilityHarvester (app/core/strategy.py).                             *)
(*                                                                         *)
(* A candle window (a pandas DataFrame in the code) is carried as the      *)
(* summary of what the strategy reads from it: its length, the ATR         *)
(* percentage calculate_atr_pct obtains from it and the two rolling means  *)
(* check_trend_filter obtains from it.  NoCandles is candles = None.       *)
(***************************************************************************)
Candles(len, atr, mas, mal) ==
    [len |-> len, atr |-> atr, ma_short |-> mas, ma_long |-> mal]
NoCandles == Candles(Null, 0, 0, 0)

\* the instance the paper and live traders build: VolatilityHarvester()
VolatilityHarvester(buy, sell, adaptive) ==
    [buy_threshold_pct |-> buy, sell_threshold_pct |-> sell, adaptive |-> adaptive,
     min_swing_pct |-> min_swing_pct, max_swing_pct |-> max_swing_pct]

calculate_atr_pct(c) == IF c.len < 14 + 1 THEN 0 ELSE c.atr

\* atr_min = 2.0, atr_max = 6.0; buy and sell thresholds are the same value
\* adapt_thresholds without the two clamping branches
adapt_thresholds_unclamped(h, atr_pct) ==
    IF ~h.adaptive THEN <<h.buy_threshold_pct, h.sell_threshold_pct>>
    ELSE LET adapted ==
                 h.min_swing_pct
                 + ((atr_pct - 200) * (h.max_swing_pct - h.min_swing_pct)) \div 400
         IN <<adapted, adapted>>

adapt_thresholds(h, atr_pct) ==
    IF ~h.adaptive THEN <<h.buy_threshold_pct, h.sell_threshold_pct>>
    ELSE LET adapted ==
                 IF atr_pct <= 200 THEN h.min_swing_pct
                 ELSE IF atr_pct >= 600 THEN h.max_swing_pct
                 ELSE h.min_swing_pct
                      + ((atr_pct - 200) * (h.max_swing_pct - h.min_swing_pct)) \div 400
         IN <<adapted, adapted>>

check_trend_filter(c, use_trend_filter) ==
    IF ~use_trend_filter THEN TRUE
    ELSE IF c.len < ma_long THEN TRUE
    ELSE c.ma_short > c.ma_long

Signal(type, price, reason) ==
    [signal_type |-> type, price |-> price, reason |-> reason]
Generated(sig, s) == [signal |-> sig, state |-> s]

\* the state machine of generate_signal, entered when neither the pause nor
\* the trend filter has returned; buy_t and sell_t are the thresholds in use
\* the state machine with a trough that follows the price instead of its minimum
signal_state_machine_trough_is_price(s, price, buy_t, sell_t) ==
    IF s.state = "flat"
    THEN LET peak == IF s.last_peak = Null \/ price > s.last_peak
                     THEN price ELSE s.last_peak
             s1 == [s EXCEPT !.last_peak = peak]
         IN IF (peak - price) * 10000 >= buy_t * peak
            THEN Generated(Signal("buy", price, <<"Price dropped">>), s1)
            ELSE Generated(Signal("hold", price, <<"No trigger met">>), s1)
    ELSE IF s.state = "long"
    THEN LET s1 == [s EXCEPT !.last_trough = price]
         IN IF s.last_buy_price = Null
            THEN Generated(Signal("hold", price, <<"Missing buy price">>), s1)
            ELSE IF (price - s.last_buy_price) * 10000 >= sell_t * s.last_buy_price
            THEN Generated(Signal("sell", price, <<"Price rose">>), s1)
            ELSE Generated(Signal("hold", price, <<"No trigger met">>), s1)
    ELSE Generated(Signal("hold", price, <<"No trigger met">>), s)

\* the state machine without the check of last_buy_price: a missing entry
\* price is replaced by the trough
signal_state_machine_entry_is_trough(s, price, buy_t, sell_t) ==
    IF s.state = "flat"
    THEN LET peak == IF s.last_peak = Null \/ price > s.last_peak
                     THEN price ELSE s.last_peak
             s1 == [s EXCEPT !.last_peak = peak]
         IN IF (peak - price) * 10000 >= buy_t * peak
            THEN Generated(Signal("buy", price, <<"Price dropped">>), s1)
            ELSE Generated(Signal("hold", price, <<"No trigger met">>), s1)
    ELSE IF s.state = "long"
    THEN LET trough == IF s.last_trough = Null \/ price < s.last_trough
                       THEN price ELSE s.last_trough
             s1 == [s EXCEPT !.last_trough = trough]
             entry == IF s.last_buy_price = Null THEN trough ELSE s.last_buy_price
         IN IF (price - entry) * 10000 >= sell_t * entry
            THEN Generated(Signal("sell", price, <<"Price rose">>), s1)
            ELSE Generated(Signal("hold", price, <<"No trigger met">>), s1)
    ELSE Generated(Signal("hold", price, <<"No trigger met">>), s)

\* the state machine with a strict comparison in the FLAT branch
signal_state_machine_strict_drop(s, price, buy_t, sell_t) ==
    IF s.state = "flat"
    THEN LET peak == IF s.last_peak = Null \/ price > s.last_peak
                     THEN price ELSE s.last_peak
             s1 == [s EXCEPT !.last_peak = peak]
         IN IF (peak - price) * 10000 > buy_t * peak
            THEN Generated(Signal("buy", price, <<"Price dropped">>), s1)
            ELSE Generated(Signal("hold", price, <<"No trigger met">>), s1)
    ELSE IF s.state = "long"
    THEN LET trough == IF s.last_trough = Null \/ price < s.last_trough
                       THEN price ELSE s.last_trough
             s1 == [s EXCEPT !.last_trough = trough]
         IN IF s.last_buy_price = Null
            THEN Generated(Signal("hold", price, <<"Missing buy price">>), s1)
            ELSE IF (price - s.last_buy_price) * 10000 >= sell_t * s.last_buy_price
            THEN Generated(Signal("sell", price, <<"Price rose">>), s1)
            ELSE Generated(Signal("hold", price, <<"No trigger met">>), s1)
    ELSE Generated(Signal("hold", price, <<"No trigger met">>), s)

signal_state_machine(s, price, buy_t, sell_t) ==
    IF s.state = "flat"
    THEN LET peak == IF s.last_peak = Null \/ price > s.last_peak
                     THEN price ELSE s.last_peak
             s1 == [s EXCEPT !.last_peak = peak]
         IN IF (peak - price) * 10000 >= buy_t * peak
            THEN Generated(Signal("buy", price, <<"Price dropped">>), s1)
            ELSE Generated(Signal("hold", price, <<"No trigger met">>), s1)
    ELSE IF s.state = "long"
    THEN LET trough == IF s.last_trough = Null \/ price < s.last_trough
                       THEN price ELSE s.last_trough
             s1 == [s EXCEPT !.last_trough = trough]
         IN IF s.last_buy_price = Null
            THEN Generated(Signal("hold", price, <<"Missing buy price">>), s1)
            ELSE IF (price - s.last_buy_price) * 10000 >= sell_t * s.last_buy_price
            THEN Generated(Signal("sell", price, <<"Price rose">>), s1)
            ELSE Generated(Signal("hold", price, <<"No trigger met">>), s1)
    ELSE Generated(Signal("hold", price, <<"No trigger met">>), s)

\* generate_signal without its pause check (lines 169-176 left out)
generate_signal_ignoring_pause(h, s, md, c, use_trend_filter) ==
    LET price == Mid(md)
        with_atr == c.len # Null /\ c.len >= 15
        atr_pct == calculate_atr_pct(c)
        thr == IF with_atr THEN adapt_thresholds(h, atr_pct)
               ELSE <<h.buy_threshold_pct, h.sell_threshold_pct>>
        s0 == IF with_atr
              THEN [s EXCEPT !.atr_pct = atr_pct,
                             !.adaptive_buy_threshold = thr[1],
                             !.adaptive_sell_threshold = thr[2]]
              ELSE s
    IN IF c.len # Null /\ ~check_trend_filter(c, use_trend_filter)
       THEN Generated(Signal("hold", price, <<"Trend filter: bearish trend">>), s0)
       ELSE signal_state_machine(s0, price, thr[1], thr[2])

\* generate_signal(state, market_data, candles): the signal and the state as
\* the call leaves it.  The ATR and the adapted thresholds are stored on the
\* state before the pause check.
generate_signal(h, s, md, c, use_trend_filter) ==
    LET price == Mid(md)
        with_atr == c.len # Null /\ c.len >= 15
        atr_pct == calculate_atr_pct(c)
        thr == IF with_atr THEN adapt_thresholds(h, atr_pct)
               ELSE <<h.buy_threshold_pct, h.sell_threshold_pct>>
        s0 == IF with_atr
              THEN [s EXCEPT !.atr_pct = atr_pct,
                             !.adaptive_buy_threshold = thr[1],
                             !.adaptive_sell_threshold = thr[2]]
              ELSE s
    IN IF s0.paused
       THEN Generated(Signal("hold", price, <<"Paused: ", s0.pause_reason>>), s0)
       ELSE IF c.len # Null /\ ~check_trend_filter(c, use_trend_filter)
       THEN Generated(Signal("hold", price, <<"Trend filter: bearish trend">>), s0)
       ELSE signal_state_machine(s0, price, thr[1], thr[2])

\* update_state_after_buy that also moves the peak to the entry price
update_state_after_buy_moving_peak(s, fill_price, qty, timestamp) ==
    [s EXCEPT !.state = "long",
              !.last_buy_price = fill_price,
              !.current_position_qty = qty,
              !.last_trough = fill_price,
              !.last_peak = fill_price,
              !.last_update = timestamp]

update_state_after_buy(s, fill_price, qty, timestamp) ==
    [s EXCEPT !.state = "long",
              !.last_buy_price = fill_price,
              !.current_position_qty = qty,
              !.last_trough = fill_price,
              !.last_update = timestamp]

\* update_state_after_sell that counts a break-even sell as a win
update_state_after_sell_break_even_wins(s, fill_price, realized_pnl, timestamp) ==
    LET s1 == [s EXCEPT !.state = "flat",
                        !.last_sell_price = fill_price,
                        !.current_position_qty = 0,
                        !.realized_pnl = @ + realized_pnl,
                        !.last_peak = fill_price,
                        !.last_update = timestamp]
        s2 == IF realized_pnl >= 0
              THEN [s1 EXCEPT !.consecutive_wins = @ + 1,
                              !.consecutive_losses = 0,
                              !.winning_trades = @ + 1]
              ELSE [s1 EXCEPT !.consecutive_losses = @ + 1,
                              !.consecutive_wins = 0]
    IN [s2 EXCEPT !.total_trades = @ + 1]

\* update_state_after_sell that leaves the opposite streak running
update_state_after_sell_keeping_streaks(s, fill_price, realized_pnl, timestamp) ==
    LET s1 == [s EXCEPT !.state = "flat",
                        !.last_sell_price = fill_price,
                        !.current_position_qty = 0,
                        !.realized_pnl = @ + realized_pnl,
                        !.last_peak = fill_price,
                        !.last_update = timestamp]
        s2 == IF realized_pnl > 0
              THEN [s1 EXCEPT !.consecutive_wins = @ + 1,
                              !.winning_trades = @ + 1]
              ELSE [s1 EXCEPT !.consecutive_losses = @ + 1]
    IN [s2 EXCEPT !.total_trades = @ + 1]

update_state_after_sell(s, fill_price, realized_pnl, timestamp) ==
    LET s1 == [s EXCEPT !.state = "flat",
                        !.last_sell_price = fill_price,
                        !.current_position_qty = 0,
                        !.realized_pnl = @ + realized_pnl,
                        !.last_peak = fill_price,
                        !.last_update = timestamp]
        s2 == IF realized_pnl > 0
              THEN [s1 EXCEPT !.consecutive_wins = @ + 1,
                              !.consecutive_losses = 0,
                              !.winning_trades = @ + 1]
              ELSE [s1 EXCEPT !.consecutive_losses = @ + 1,
                              !.consecutive_wins = 0]
    IN [s2 EXCEPT !.total_trades = @ + 1]

(***************************************************************************)
(* Inputs of the function-level specifications.                            *)
(***************************************************************************)
MaxLosses == 6              \* consecutive_losses ranges over 0 .. MaxLosses
Today == 10 * SecondsPerDay + 3600

Settings(trend, maker) == [use_trend_filter |-> trend, maker_first |-> maker]
NotCalled == [op |-> "none"]

\* the parts of the system a function-level specification does not use
NoExchange == [adapter |-> None, USD |-> 0, BTC |-> 0, orders |-> <<>>,
               connected |-> FALSE]
NoEngine == [pc |-> "idle"]
NoPortfolio == [cash |-> 0, btc |-> 0, initial_equity |-> 0, realized_pnl |-> 0]
NoDriver == [kind |-> "none"]
Unused ==
    /\ exchange = NoExchange
    /\ engine = NoEngine
    /\ portfolio = NoPortfolio
    /\ driver = NoDriver
sessionVars == <<exchange, engine, portfolio, driver>>

\* (peak_equity, total_equity) as sync_state leaves them, with the drawdown
\* it computes: an empty account, no drawdown, 10 %, 20 %, 25 %
EquityInputs == {<<0, 0>>, <<1000, 1000>>, <<1000, 900>>, <<1000, 800>>, <<1000, 750>>}
DrawdownOf(peak, equity) ==
    IF peak > 0 THEN Frac((peak - equity) * 10000, peak) ELSE Zero
DailyPnlInputs == {0 - 100, 0 - 80, 0 - 75, 0 - 10, 0, 50}
ResetTimeInputs == {Null, Today - SecondsPerDay, Today - 60}
AtrInputs == {Null, 150, 200, 500, 1000, 1050}
\* spreads of 0, exactly 10 and 12 basis points
MarketInputs == {MarketData(10000, 10000), MarketData(9995, 10005),
                 MarketData(9994, 10006)}
HeartbeatInputs == {Null, Today, Today - 5, Today - 6}

(***************************************************************************)
(* SpecRisk: the circuit breakers as functions of their inputs.            *)
(***************************************************************************)
InitRisk ==
    /\ \E e \in EquityInputs, losses \in 0 .. MaxLosses, atr \in AtrInputs :
          state = [StrategyStateData EXCEPT
                      !.peak_equity = e[1], !.total_equity = e[2],
                      !.current_drawdown_pct = DrawdownOf(e[1], e[2]),
                      !.consecutive_losses = losses,
                      !.atr_pct = atr]
    /\ \E pnl \in DailyPnlInputs, reset \in ResetTimeInputs :
          /\ state.total_equity = 0 => pnl = 0
          /\ reset = Null => pnl = 0
          /\ risk = [daily_pnl |-> pnl, daily_pnl_reset_time |-> reset]
    /\ market \in MarketInputs
    /\ heartbeat \in HeartbeatInputs
    /\ now = Today
    /\ candles = NoCandles
    /\ strategy = VolatilityHarvester(buy_threshold_pct, sell_threshold_pct, TRUE)
    /\ settings = Settings(FALSE, TRUE)
    /\ ret = NotCalled
    /\ Unused

CheckAllCircuitBreakers ==
    /\ ret.op = "none"
    /\ LET b == check_all_circuit_breakers(risk, state, market, heartbeat, now) IN
         /\ risk' = b.risk
         /\ ret' = [op |-> "check_all_circuit_breakers",
                    value |-> [pause |-> b.pause, cb |-> b.cb, text |-> b.text],
                    risk0 |-> risk]
    /\ UNCHANGED <<state, market, candles, heartbeat, now, strategy, settings>>
    /\ UNCHANGED sessionVars

ShouldFlattenPosition ==
    /\ ret.op = "none"
    /\ LET f == should_flatten_position(risk, state, market, heartbeat, now) IN
         /\ risk' = f.risk
         /\ ret' = [op |-> "should_flatten_position",
                    value |-> [flatten |-> f.flatten, text |-> f.text],
                    risk0 |-> risk]
    /\ UNCHANGED <<state, market, candles, heartbeat, now, strategy, settings>>
    /\ UNCHANGED sessionVars

NextRisk == CheckAllCircuitBreakers \/ ShouldFlattenPosition

SpecRisk == InitRisk /\ [][NextRisk]_vars

(***************************************************************************)
(* The six breaker conditions as section 4.2 of the specification words    *)
(* them, on the arguments of a call, and their priority.                   *)
(***************************************************************************)
BreakerOrder == <<"max_drawdown", "consecutive_losses", "daily_loss_limit",
                  "volatility", "spread_too_wide", "stale_data">>

\* the daily counter the breaker reads: zero once a UTC midnight was crossed
DailyLossToday(r0) ==
    IF r0.daily_pnl_reset_time = Null \/ DateOf(now) > DateOf(r0.daily_pnl_reset_time)
    THEN 0 ELSE 0 - r0.daily_pnl

ConditionTrue(i, r0) ==
    CASE i = 1 -> state.current_drawdown_pct.n
                     >= max_drawdown_pct * state.current_drawdown_pct.d
      [] i = 2 -> state.consecutive_losses >= max_consecutive_losses
      [] i = 3 -> /\ DailyLossToday(r0) > 0
                  /\ DailyLossToday(r0) * 10000 >= daily_loss_limit_pct * state.total_equity
      [] i = 4 -> /\ state.atr_pct # Null
                  /\ (state.atr_pct < min_activity_pct \/ state.atr_pct > max_activity_pct)
      [] i = 5 -> (market.ask - market.bid) * 10000 > max_spread_bps * Mid(market)
      [] i = 6 -> heartbeat = Null \/ now - heartbeat > max_ws_stale_seconds

TrueConditions(r0) == {i \in 1 .. 6 : ConditionTrue(i, r0)}
Winner(r0) == CHOOSE i \in TrueConditions(r0) : \A j \in TrueConditions(r0) : i <= j
RankOf(cb) ==
    IF cb \in {"low_volatility", "high_volatility"} THEN 4
    ELSE CHOOSE i \in 1 .. 6 : BreakerOrder[i] = cb

\* C1: check_all_circuit_breakers returns the reason of the highest-priority
\* breaker whose condition is true, whatever combination of conditions is
\* true at once, and (False, None, None) exactly when none is true.
C1_PriorityOrder ==
    ret.op = "check_all_circuit_breakers" =>
        IF TrueConditions(ret.risk0) = {}
        THEN ret.value = [pause |-> FALSE, cb |-> None, text |-> None]
        ELSE /\ ret.value.pause
             /\ RankOf(ret.value.cb) = Winner(ret.risk0)
             /\ ret.value.cb = "low_volatility" => state.atr_pct < min_activity_pct
             /\ ret.value.cb = "high_volatility" => state.atr_pct > max_activity_pct

\* C1 witness: all six conditions true at once and drawdown returned
C1_Witness ==
    /\ ret.op = "check_all_circuit_breakers"
    /\ TrueConditions(ret.risk0) = 1 .. 6
    /\ ret.value.cb = "max_drawdown"

\* C8: should_flatten_position returns (True, reason) exactly when the
\* winning breaker is drawdown or stale data, and (False, None) otherwise.
C8_FlattenOnlyCritical ==
    ret.op = "should_flatten_position" =>
        IF TrueConditions(ret.risk0) # {} /\ Winner(ret.risk0) \in {1, 6}
        THEN ret.value.flatten /\ ret.value.text # None
        ELSE ret.value = [flatten |-> FALSE, text |-> None]

\* C8 witness: stale data is true but the spread breaker wins: no flatten
C8_Witness ==
    /\ ret.op = "should_flatten_position"
    /\ 6 \in TrueConditions(ret.risk0)
    /\ Winner(ret.risk0) = 5
    /\ ~ret.value.flatten

(***************************************************************************)
(* SpecSignal: generate_signal called MaxCalls times in a row on a state   *)
(* a session can be in, each call with its own snapshot and candle window. *)
(***************************************************************************)
MaxCalls == 2

Snapshot(mid) == MarketData(mid - 5, mid + 5)
SignalMids == {47000, 47500, 47501, 49874, 49875, 50000, 52500}
\* no window; too short for the ATR; an ATR window (1.5 %, 3 %, 7 %); a window
\* long enough for both moving averages, short above long and long above short
CandleInputs ==
    {NoCandles, Candles(14, 300, 0, 0)}
    \cup {Candles(30, a, 0, 0) : a \in {150, 300, 700}}
    \cup {Candles(200, 300, 50000, 49000), Candles(200, 300, 49000, 50000)}
PauseReasons == {"Consecutive losses exceeds limit", "Spread exceeds limit"}

InitSignal ==
    /\ \E adaptive \in BOOLEAN :
          strategy = VolatilityHarvester(buy_threshold_pct, sell_threshold_pct, adaptive)
    /\ \E mode \in {"flat", "long"}, peak \in {Null, 50000}, buy \in {Null, 47500},
          reason \in PauseReasons \cup {None}, atr \in {Null, 300} :
          state = [StrategyStateData EXCEPT
                      !.state = mode,
                      !.last_peak = peak,
                      !.last_buy_price = buy,
                      !.last_trough = buy,
                      !.current_position_qty = IF mode = "long" THEN 1 ELSE 0,
                      !.paused = (reason # None),
                      !.pause_reason = reason,
                      !.atr_pct = atr,
                      !.adaptive_buy_threshold =
                          IF atr = Null THEN Null ELSE adapt_thresholds(strategy, atr)[1],
                      !.adaptive_sell_threshold =
                          IF atr = Null THEN Null ELSE adapt_thresholds(strategy, atr)[2],
                      !.total_equity = 10000, !.peak_equity = 10000]
    /\ risk = RiskManager
    /\ market = Snapshot(50000)
    /\ candles = NoCandles
    /\ heartbeat = Today
    /\ now = Today
    /\ \E trend \in BOOLEAN : settings = Settings(trend, TRUE)
    /\ ret = [op |-> "none", n |-> 0]
    /\ Unused

GenerateSignal ==
    /\ ret.n < MaxCalls
    /\ \E mid \in SignalMids, c \in CandleInputs :
         LET g == generate_signal(strategy, state, Snapshot(mid), c,
                                  settings.use_trend_filter) IN
           /\ market' = Snapshot(mid)
           /\ candles' = c
           /\ state' = g.state
           /\ ret' = [op |-> "generate_signal", n |-> ret.n + 1,
                      value |-> g.signal, state0 |-> state]
    /\ UNCHANGED <<risk, heartbeat, now, strategy, settings>>
    /\ UNCHANGED sessionVars

NextSignal == GenerateSignal

SpecSignal == InitSignal /\ [][NextSignal]_vars

\* C9: generate_signal on a paused state returns HOLD citing the pause cause
\* and leaves every field of the state as it was, with or without a window.
C9_PausedLeavesStateUnchanged ==
    (ret.op = "generate_signal" /\ ret.state0.paused) =>
        /\ ret.value.signal_type = "hold"
        /\ ret.value.reason = <<"Paused: ", ret.state0.pause_reason>>
        /\ state = ret.state0

\* the sell threshold the last call used
SellThresholdUsed ==
    IF candles.len # Null /\ candles.len >= 15
    THEN adapt_thresholds(strategy, candles.atr)[2]
    ELSE strategy.sell_threshold_pct

\* C10: the trend filter suppresses BUY only: with the filter enabled and
\* the long moving average above the short one, a LONG state whose price
\* has risen by the sell threshold still gets SELL, and its trough is tracked.
C10_TrendFilterNeverBlocksSell ==
    ( /\ ret.op = "generate_signal"
      /\ settings.use_trend_filter
      /\ candles.len # Null /\ candles.len >= ma_long
      /\ candles.ma_long > candles.ma_short
      /\ ~ret.state0.paused
      /\ ret.state0.state = "long"
      /\ ret.state0.last_buy_price # Null
      /\ (Mid(market) - ret.state0.last_buy_price) * 10000
             >= SellThresholdUsed * ret.state0.last_buy_price )
    => /\ ret.value.signal_type = "sell"
       /\ state.last_trough # Null /\ state.last_trough <= Mid(market)


\* a call in FLAT mode leaves last_peak at or above what it was
C15_PeakNonDecreasing ==
    (ret.op = "generate_signal" /\ ret.state0.state = "flat"
        /\ ret.state0.last_peak # Null)
    => state.last_peak # Null /\ state.last_peak >= ret.state0.last_peak

\* a call in FLAT mode that the pause did not short-circuit leaves last_peak
\* at or above the mid price of its snapshot
C15_PeakCoversPrice ==
    (ret.op = "generate_signal" /\ ret.state0.state = "flat"
        /\ ~ret.state0.paused)
    => state.last_peak # Null /\ state.last_peak >= Mid(market)

\* C15: over generate_signal calls made in FLAT mode last_peak never
\* decreases from one call to the next, and after each call that the pause
\* did not short-circuit last_peak is at least the snapshot's mid price.
C15_PeakTracksPrice == C15_PeakNonDecreasing /\ C15_PeakCoversPrice


\* the last call used the configured thresholds: not adaptive, or no window
\* long enough for the ATR
StaticThresholds ==
    ~strategy.adaptive \/ candles.len = Null \/ candles.len < 15
\* the last call went past the trend filter
TrendFilterPassed ==
    candles.len = Null \/ check_trend_filter(candles, settings.use_trend_filter)
\* last_peak as the FLAT branch leaves it
PeakAfterUpdate ==
    IF ret.state0.last_peak = Null \/ Mid(market) > ret.state0.last_peak
    THEN Mid(market) ELSE ret.state0.last_peak
DropReachesThreshold ==
    (PeakAfterUpdate - Mid(market)) * 10000 >= buy_threshold_pct * PeakAfterUpdate
RiseReachesThreshold ==
    (Mid(market) - ret.state0.last_buy_price) * 10000
        >= sell_threshold_pct * ret.state0.last_buy_price
BuyIffDrop ==
    /\ ret.value.signal_type = IF DropReachesThreshold THEN "buy" ELSE "hold"
    /\ ret.state0.last_peak = 50000
          => (ret.value.signal_type = "buy" <=> Mid(market) <= 47500)
SellIffRise ==
    /\ ret.value.signal_type = IF RiseReachesThreshold THEN "sell" ELSE "hold"
    /\ ret.state0.last_buy_price = 47500
          => (ret.value.signal_type = "sell" <=> Mid(market) >= 49875)

C19_SellExactlyAtThreshold ==
    ( /\ ret.op = "generate_signal"
      /\ ret.state0.state = "long"
      /\ ret.state0.last_buy_price # Null
      /\ ~ret.state0.paused
      /\ StaticThresholds )
    => SellIffRise

min_notional == 10
lot_size == 1
LotsPerBTC == 100000
\* qty * price, in dollars
Notional(qty, price) == (qty * price) \div LotsPerBTC
maker_fee == 1              \* FakeExchange.maker_fee, per thousand
taker_fee == 3              \* FakeExchange.taker_fee, per thousand
taker_slippage_bps == 10

\* "abstract" is any other implementation of ExchangeAdapter: each of its
\* requests may raise
Adapters == {"fake", "coinbase", "binance", "abstract"}
Exchange(adapter, usd, btc) ==
    [adapter |-> adapter, USD |-> usd, BTC |-> btc, orders |-> <<>>,
     connected |-> TRUE]
\* disconnect: FakeExchange clears its flag, which ends _simulate_price_movement;
\* the REST adapters also close their aiohttp session, after which every
\* request of theirs raises inside _request
disconnect(ex) == [ex EXCEPT !.connected = FALSE]
Closed(ex) == ex.adapter \in {"coinbase", "binance"} /\ ~ex.connected

OrderRequest(side, order_type, qty, price) ==
    [side |-> side, order_type |-> order_type, qty |-> qty, price |-> price]
OrderEntry(order, status) ==
    [side |-> order.side, order_type |-> order.order_type, qty |-> order.qty,
     price |-> order.price, status |-> status]
OrderFill(order_id, side, qty, price, fee) ==
    [order_id |-> order_id, side |-> side, qty |-> qty, price |-> price, fee |-> fee]
NoFill == OrderFill(Null, None, 0, 0, 0)

round_quantity(qty) == ((qty.n \div qty.d) \div lot_size) * lot_size
\* round(float(price), precision): to the nearest price step, a tie to the even
\* neighbour; the model's price step is the dollar
round_price(price) ==
    LET q == price.n \div price.d
        twice == 2 * (price.n % price.d)
    IN IF twice < price.d THEN q
       ELSE IF twice > price.d THEN q + 1
       ELSE IF q % 2 = 0 THEN q ELSE q + 1

Terminal == {"filled", "cancelled", "rejected", "expired"}
SetStatus(ex, id, status) == [ex EXCEPT !.orders[id].status = status]
FeeOf(order) ==
    (Notional(order.qty, order.price)
       * (IF order.order_type # "market" THEN maker_fee ELSE taker_fee)) \div 1000
FillOf(ex, id) ==
    LET order == ex.orders[id]
    IN OrderFill(id, order.side, order.qty, order.price, FeeOf(order))

_fill_order(ex, id) ==
    LET order == ex.orders[id]
        cost == Notional(order.qty, order.price)
        fee == FeeOf(order)
    IN IF order.side = "buy"
       THEN IF ex.USD >= cost + fee
            THEN [SetStatus(ex, id, "filled") EXCEPT
                     !.USD = ex.USD - (cost + fee), !.BTC = ex.BTC + order.qty]
            ELSE SetStatus(ex, id, "rejected")
       ELSE IF ex.BTC >= order.qty
            THEN [SetStatus(ex, id, "filled") EXCEPT
                     !.BTC = ex.BTC - order.qty, !.USD = ex.USD + (cost - fee)]
            ELSE SetStatus(ex, id, "rejected")

\* place_order: the order is entered as OPEN; `how` says what the exchange does
\* with it before the call returns: "open" leaves it resting, "match" runs it
\* through _fill_order, "reject" refuses it
PlaceHow(adapter, order_type) ==
    IF adapter = "fake"
    THEN (IF order_type = "market" THEN {"match"} ELSE {"open"})
    ELSE (IF order_type = "market" THEN {"open", "match"} ELSE {"open", "reject"})
place_order(ex, order, how) ==
    LET id == Len(ex.orders) + 1
        entered == [ex EXCEPT !.orders = Append(ex.orders, OrderEntry(order, "open"))]
    IN CASE how = "open" -> entered
         [] how = "match" -> _fill_order(entered, id)
         [] how = "reject" -> SetStatus(entered, id, "rejected")

\* cancel_order: <<returned value, exchange afterwards>>. The REST adapters
\* return False when the request fails and leave the order as it was.
cancel_order(ex, id, fault) ==
    IF fault THEN <<FALSE, ex>>
    ELSE IF ex.orders[id].status = "open"
         THEN <<TRUE, SetStatus(ex, id, "cancelled")>>
         ELSE <<(ex.adapter = "coinbase"), ex>>

\* get_order_status: the REST adapters answer REJECTED when the request fails
get_order_status(ex, id, fault) ==
    IF fault THEN "rejected" ELSE ex.orders[id].status

\* get_order_fills: FakeExchange returns the recorded fill, CoinbaseAdapter the
\* exchange's fills or [] when the request fails, BinanceAdapter always []
get_order_fills(ex, id, fault) ==
    IF ex.adapter = "binance" \/ fault THEN <<>>
    ELSE IF ex.orders[id].status = "filled" THEN <<FillOf(ex, id)>> ELSE <<>>

\* which calls of the adapter can fail in transport
Faults(adapter) == IF adapter = "fake" THEN {FALSE} ELSE BOOLEAN
\* the exceptions a status, fills or cancel request can raise: none with the
\* adapters of the repository, which catch them and answer a value instead
Raises(adapter) == IF adapter = "abstract" THEN {"exception"} ELSE {}
\* the same for an exchange that may have been disconnected
RequestFaults(ex) == IF Closed(ex) THEN {TRUE} ELSE Faults(ex.adapter)
Placements(ex, order_type) ==
    IF Closed(ex) THEN {} ELSE PlaceHow(ex.adapter, order_type)


\* ---- ExecutionEngine.execute_buy / execute_sell, one step per await ----
MaxPolls == 2

Outcome(success, fill, error) == [success |-> success, fill |-> fill, error |-> error]
EngineCall(side, qty, md, maker_first) ==
    [pc |-> "start", side |-> side, qty |-> qty, market_data |-> md,
     maker_first |-> maker_first, phase |-> None, order_id |-> Null,
     maker_id |-> Null, market_id |-> Null, polls |-> 0, calls |-> <<>>,
     maker_wait |-> None, maker_at_market |-> None, stopped_in |-> None,
     result |-> Outcome(FALSE, NoFill, "not returned")]
Return(e, outcome) == [e EXCEPT !.pc = "done", !.result = outcome]

limit_price(side, md) ==
    IF side = "buy"
    THEN round_price(Frac(4 * md.bid + (md.ask - md.bid), 4))
    ELSE round_price(Frac(4 * md.ask - (md.ask - md.bid), 4))
estimated_price(side, md) ==
    IF side = "buy"
    THEN (md.ask * (10000 + taker_slippage_bps)) \div 10000
    ELSE (md.bid * (10000 - taker_slippage_bps)) \div 10000

\* execute_buy / execute_sell without the minimum-notional test
execute_start_unchecked(side, qty, md, maker_first, settings_maker_first) ==
    LET e == EngineCall(side, round_quantity(qty), md, maker_first)
    IN IF maker_first /\ settings_maker_first
       THEN [e EXCEPT !.pc = "place_maker"]
       ELSE [e EXCEPT !.pc = "place_market"]

\* validation and the choice between the maker attempt and the market order
execute_start(side, qty, md, maker_first, settings_maker_first) ==
    LET q == round_quantity(qty)
        notional == Notional(q, IF side = "buy" THEN md.ask ELSE md.bid)
        e == EngineCall(side, q, md, maker_first)
    IN IF notional < min_notional
       THEN Return(e, Outcome(FALSE, NoFill, "Order size below minimum"))
       ELSE IF maker_first /\ settings_maker_first
            THEN [e EXCEPT !.pc = "place_maker"]
            ELSE [e EXCEPT !.pc = "place_market"]

\* the engine without the except clause of the market attempt
Raised_uncaught(e) ==
    IF e.phase = "maker"
    THEN [e EXCEPT !.pc = "place_market", !.maker_wait = "raised"]
    ELSE [e EXCEPT !.pc = "raised"]

\* the engine returning the exception of the maker attempt as the failure
Raised_as_failure(e) ==
    IF e.phase = "maker"
    THEN [Return(e, Outcome(FALSE, NoFill, "execution failed"))
             EXCEPT !.maker_wait = "raised"]
    ELSE Return(e, Outcome(FALSE, NoFill, "execution failed"))

\* an exception inside the try block of the phase the engine is in
Raised(e) ==
    IF e.phase = "maker"
    THEN [e EXCEPT !.pc = "place_market", !.maker_wait = "raised"]
    ELSE Return(e, Outcome(FALSE, NoFill, "execution failed"))

\* what follows the return of _wait_for_fill
AfterWait(e, fill) ==
    IF fill # NoFill THEN Return(e, Outcome(TRUE, fill, None))
    ELSE IF e.phase = "maker" THEN [e EXCEPT !.pc = "cancel_maker"]
    ELSE Return(e, Outcome(FALSE, NoFill, "Market order failed to fill"))


\* ---- the steps of a call, each as the set of <<engine, exchange>> pairs it
\* can lead to, over every answer the adapter can give ----
place_maker_step(e, ex) ==
    LET order == OrderRequest(e.side, "post_only", e.qty, limit_price(e.side, e.market_data))
        e1 == [e EXCEPT !.phase = "maker", !.calls = Append(@, "place_order:post_only")]
        id == Len(ex.orders) + 1
    IN {<<[e1 EXCEPT !.pc = "poll", !.order_id = id, !.maker_id = id, !.polls = 0],
          place_order(ex, order, how)>> : how \in Placements(ex, "post_only")}
       \cup {<<Raised(e1), ex>> : fault \in RequestFaults(ex) \ {FALSE}}

\* one round of the loop of _wait_for_fill up to the fills request: the status
\* request, and for a status that is not final the sleep and the timeout test
poll_step(e, ex) ==
    LET slept == [e EXCEPT !.polls = @ + 1]
        late == [slept EXCEPT !.maker_wait = IF e.phase = "maker" THEN "timeout" ELSE @]
        failed == [e EXCEPT !.maker_wait = IF e.phase = "maker" THEN "request failed"
                                           ELSE @]
        next(status, fault, timed_out) ==
            IF status = "filled" THEN [e EXCEPT !.pc = "fills"]
            ELSE IF status \in {"cancelled", "rejected", "expired"}
                 THEN AfterWait(IF fault THEN failed ELSE e, NoFill)
            ELSE IF timed_out \/ slept.polls >= MaxPolls
                 THEN AfterWait(late, NoFill)
            ELSE slept
    IN {<<next(get_order_status(ex, e.order_id, fault), fault, timed_out), ex>> :
           fault \in RequestFaults(ex), timed_out \in BOOLEAN}
       \cup {<<Raised(e), ex>> : exception \in Raises(ex.adapter)}

fills_step(e, ex) ==
    LET next(fills) == AfterWait(e, IF fills # <<>> THEN fills[1] ELSE NoFill)
    IN {<<next(get_order_fills(ex, e.order_id, fault)), ex>> : fault \in RequestFaults(ex)}
       \cup {<<Raised(e), ex>> : exception \in Raises(ex.adapter)}

cancel_step(e, ex) ==
    {<<[e EXCEPT !.pc = "place_market", !.calls = Append(@, "cancel_order")],
       cancel_order(ex, e.order_id, fault)[2]>> : fault \in RequestFaults(ex)}
    \cup {<<[Raised(e) EXCEPT !.calls = Append(@, "cancel_order"),
                              !.maker_wait = e.maker_wait], ex>>
             : exception \in Raises(ex.adapter)}

place_market_step(e, ex) ==
    LET order == OrderRequest(e.side, "market", e.qty, estimated_price(e.side, e.market_data))
        e1 == [e EXCEPT !.phase = "market",
                        !.calls = Append(@, "place_order:market"),
                        !.maker_at_market =
                            IF e.maker_id = Null THEN None
                            ELSE ex.orders[e.maker_id].status]
        id == Len(ex.orders) + 1
    IN {<<[e1 EXCEPT !.pc = "poll", !.order_id = id, !.market_id = id, !.polls = 0],
          place_order(ex, order, how)>> : how \in Placements(ex, "market")}
       \cup {<<Raised(e1), ex>> : fault \in RequestFaults(ex) \ {FALSE}}

\* the exchange on its own: a resting order is matched (FakeExchange:
\* _process_limit_orders when the price crosses), or the venue ends it
Resting(ex) == {id \in DOMAIN ex.orders : ex.orders[id].status = "open"}
process_limit_orders(ex) ==
    IF ex.adapter = "fake" /\ ~ex.connected THEN {}
    ELSE {_fill_order(ex, id) : id \in Resting(ex)}
venue_expires(ex) ==
    IF ex.adapter = "fake" THEN {}
    ELSE {SetStatus(ex, id, "expired") : id \in Resting(ex)}

engine_step(e, ex) ==
    CASE e.pc = "place_maker" -> place_maker_step(e, ex)
      [] e.pc = "poll" -> poll_step(e, ex)
      [] e.pc = "fills" -> fills_step(e, ex)
      [] e.pc = "cancel_maker" -> cancel_step(e, ex)
      [] e.pc = "place_market" -> place_market_step(e, ex)
      [] OTHER -> {}

\* ---- specification of one execution against one exchange ----
\* 19 lots at 50000 are worth 9.50 dollars, 20.5 lots round down to 20 lots
\* worth 10 dollars, 18400 lots are what 10000 dollars deploy at 50000
ExecQtys == {Frac(19, 1), Frac(41, 2), Frac(18400, 1)}
\* spreads of 0, 5 and 20 basis points around 50000
ExecMarkets == {MarketData(50000, 50000), MarketData(49988, 50012),
                MarketData(49950, 50050)}
otherVars == <<state, risk, candles, heartbeat, now, strategy, settings, ret,
               portfolio, driver>>

InitExec ==
    /\ state = StrategyStateData
    /\ risk = RiskManager
    /\ market = MarketData(50000, 50000)
    /\ candles = NoCandles
    /\ heartbeat = Today
    /\ now = Today
    /\ strategy = VolatilityHarvester(buy_threshold_pct, sell_threshold_pct, FALSE)
    /\ \E maker \in BOOLEAN : settings = Settings(FALSE, maker)
    /\ ret = NotCalled
    /\ \E adapter \in Adapters, usd \in {5, 10000}, btc \in {0, 18400} :
          exchange = Exchange(adapter, usd, btc)
    /\ engine = NoEngine
    /\ portfolio = NoPortfolio
    /\ driver = NoDriver

ExecuteBuy ==
    /\ engine.pc = "idle"
    /\ \E qty \in ExecQtys, md \in ExecMarkets, maker_first \in BOOLEAN :
          /\ engine' = execute_start("buy", qty, md, maker_first, settings.maker_first)
          /\ market' = md
    /\ UNCHANGED <<exchange, otherVars>>

ExecuteSell ==
    /\ engine.pc = "idle"
    /\ \E qty \in ExecQtys, md \in ExecMarkets, maker_first \in BOOLEAN :
          /\ engine' = execute_start("sell", qty, md, maker_first, settings.maker_first)
          /\ market' = md
    /\ UNCHANGED <<exchange, otherVars>>

\* execute_signal: buy and sell go to execute_buy and execute_sell with the
\* default maker_first, any other signal type is refused
execute_signal(signal_type, qty, md, settings_maker_first) ==
    IF signal_type \in {"buy", "sell"}
    THEN execute_start(signal_type, qty, md, TRUE, settings_maker_first)
    ELSE Return(EngineCall(signal_type, qty.n \div qty.d, md, TRUE),
                Outcome(FALSE, NoFill, "Invalid signal type"))

ExecuteSignal ==
    /\ engine.pc = "idle"
    /\ \E signal_type \in {"buy", "sell", "hold"}, qty \in ExecQtys,
          md \in ExecMarkets :
          /\ engine' = execute_signal(signal_type, qty, md, settings.maker_first)
          /\ market' = md
    /\ UNCHANGED <<exchange, otherVars>>

EngineTakes(steps) ==
    /\ \E next \in steps : engine' = next[1] /\ exchange' = next[2]
    /\ UNCHANGED <<market, otherVars>>

PlaceMakerOrder ==
    engine.pc = "place_maker" /\ EngineTakes(place_maker_step(engine, exchange))
PollOrderStatus ==
    engine.pc = "poll" /\ EngineTakes(poll_step(engine, exchange))
GetOrderFills ==
    engine.pc = "fills" /\ EngineTakes(fills_step(engine, exchange))
CancelMakerOrder ==
    engine.pc = "cancel_maker" /\ EngineTakes(cancel_step(engine, exchange))
PlaceMarketOrder ==
    engine.pc = "place_market" /\ EngineTakes(place_market_step(engine, exchange))

ProcessLimitOrders ==
    /\ exchange' \in process_limit_orders(exchange)
    /\ UNCHANGED <<engine, market, otherVars>>

VenueExpiresOrder ==
    /\ exchange' \in venue_expires(exchange)
    /\ UNCHANGED <<engine, market, otherVars>>

\* stop() of PaperTrader or LiveTrader while the iteration is inside a call
\* of the engine: running = False, which the loop reads at its next
\* iteration boundary, and exchange.disconnect()
Stop ==
    /\ engine.pc \in {"place_maker", "poll", "fills", "cancel_maker", "place_market"}
    /\ exchange.connected
    /\ exchange' = disconnect(exchange)
    /\ engine' = [engine EXCEPT !.stopped_in =
                      IF engine.pc = "poll" THEN engine.phase ELSE "call"]
    /\ UNCHANGED <<market, otherVars>>

NextExec ==
    \/ Stop
    \/ ExecuteBuy
    \/ ExecuteSell
    \/ ExecuteSignal
    \/ PlaceMakerOrder
    \/ PollOrderStatus
    \/ GetOrderFills
    \/ CancelMakerOrder
    \/ PlaceMarketOrder
    \/ ProcessLimitOrders
    \/ VenueExpiresOrder

SpecExec == InitExec /\ [][NextExec]_vars


InFlight == Resting(exchange)

\* C3: during an execution at most one order is in flight at the exchange, and
\* the market order was placed only once the maker order had reached a final
\* status (filled, cancelled, rejected or expired)
C3_OneOrderInFlight ==
    engine.pc \notin {"idle", "done"} =>
        /\ Cardinality(InFlight) <= 1
        /\ (engine.maker_id # Null /\ engine.market_id # Null)
              => engine.maker_at_market \in Terminal

\* C4: when the maker order was placed, timed out unfilled and stays unfilled,
\* and the market order fills, the engine has placed the maker order, cancelled
\* it, placed a market order of the same quantity, and returns
\* (True, fill of the market order, None)
C4_TimeoutFallsBackToMarket ==
    ( /\ engine.pc = "done"
      /\ engine.maker_id # Null
      /\ engine.maker_wait = "timeout"
      /\ exchange.orders[engine.maker_id].status # "filled"
      /\ engine.market_id # Null
      /\ exchange.orders[engine.market_id].status = "filled" )
    => /\ engine.calls = <<"place_order:post_only", "cancel_order", "place_order:market">>
       /\ exchange.orders[engine.market_id].qty = exchange.orders[engine.maker_id].qty
       /\ engine.result = Outcome(TRUE, FillOf(exchange, engine.market_id), None)

WellFormed(outcome) ==
    \/ outcome.success /\ outcome.fill # NoFill /\ outcome.error = None
    \/ ~outcome.success /\ outcome.fill = NoFill /\ outcome.error # None

\* C24: stop() called while the iteration waits for the fill of its maker
\* order does not interrupt or invalidate the wait: with the adapters of the
\* repository the wait still ends with the fill, with the final status the
\* order has at the exchange, or with the timeout.
C24_StopLeavesWaitIntact ==
    ( /\ engine.pc # "idle"
      /\ exchange.adapter \in {"fake", "coinbase", "binance"}
      /\ engine.stopped_in = "maker"
      /\ engine.pc # "poll" )
    => \/ engine.maker_wait = "timeout"
       \/ exchange.orders[engine.maker_id].status \in Terminal


\* C31: a maker order that is FILLED at the exchange before the engine's
\* cancel takes effect is never followed by a market order of the same call:
\* whenever a call on one of the repository's adapters places its market
\* order, the maker order is not filled at that moment.
C31_FilledMakerNoMarketOrder ==
    ( /\ engine.pc # "idle"
      /\ exchange.adapter \in {"fake", "coinbase", "binance"}
      /\ engine.maker_id # Null
      /\ engine.market_id # Null )
    => engine.maker_at_market # "filled"

\* C11: execute_buy, execute_sell and execute_signal never raise, whatever
\* the exchange answers or raises: a call that has ended has returned
\* (True, fill, None) with a fill or (False, None, error) with an error.
C11_AlwaysReturnsTriple ==
    /\ engine.pc # "raised"
    /\ engine.pc = "done" => WellFormed(engine.result)

\* both the maker and the market attempt raised, and the call returned
C11_Witness ==
    /\ engine.pc = "done"
    /\ engine.maker_wait = "raised"
    /\ engine.result = Outcome(FALSE, NoFill, "execution failed")

NotionalOfCall ==
    Notional(engine.qty, IF engine.side = "buy" THEN engine.market_data.ask
                         ELSE engine.market_data.bid)

\* C12: when the quantity rounded down to the lot size is worth less than
\* the exchange minimum (at the ask for a buy, at the bid for a sell), the
\* call returns a failure and no order, maker or market, is placed.
C12_BelowMinimumPlacesNothing ==
    ( /\ engine.pc # "idle"
      /\ engine.side \in {"buy", "sell"}
      /\ NotionalOfCall < min_notional )
    => /\ engine.pc = "done"
       /\ ~engine.result.success
       /\ engine.result.error # None
       /\ engine.calls = <<>>
       /\ exchange.orders = <<>>

\* a sell refused for its worth at the bid, of a quantity worth the minimum
\* at the ask
C12_Witness ==
    /\ engine.pc = "done"
    /\ engine.side = "sell"
    /\ NotionalOfCall < min_notional
    /\ Notional(engine.qty, engine.market_data.ask) >= min_notional
    /\ ~engine.result.success

\* C13: an exception raised while placing or polling the maker order is not
\* propagated and is not the call's result: the engine goes on to the market
\* order, and the call returns what the market attempt gives.
C13_MakerFaultFallsThrough ==
    (engine.pc # "idle" /\ engine.maker_wait = "raised") =>
        /\ engine.pc # "raised"
        /\ engine.pc = "done" =>
              /\ engine.calls # <<>>
              /\ engine.calls[Len(engine.calls)] = "place_order:market"
              /\ \/ /\ engine.market_id # Null
                    /\ engine.result.success
                    /\ engine.result.fill.order_id = engine.market_id
                 \/ /\ engine.market_id # Null
                    /\ engine.result
                         = Outcome(FALSE, NoFill, "Market order failed to fill")
                 \/ engine.result = Outcome(FALSE, NoFill, "execution failed")

\* the maker attempt raised and the market order filled
C13_Witness ==
    /\ engine.pc = "done"
    /\ engine.maker_wait = "raised"
    /\ engine.market_id # Null
    /\ engine.result.success


\* ---------------------------------------------------------------------------
\* Portfolio, position sizing, and a whole execution as one call
\* ---------------------------------------------------------------------------
Portfolio(initial_cash, initial_btc) ==
    [cash |-> initial_cash, btc |-> initial_btc, initial_equity |-> initial_cash,
     realized_pnl |-> 0]

get_equity(pf, btc_price) == pf.cash + Notional(pf.btc, btc_price)
get_unrealized_pnl(pf, btc_price) ==
    get_equity(pf, btc_price) - pf.initial_equity - pf.realized_pnl

\* Portfolio.execute_buy / execute_sell: ok is FALSE where the code raises
\* ValueError, and the portfolio is then as it was
\* execute_buy without the test of the cash
portfolio_execute_buy_unguarded(pf, qty, price, fee) ==
    LET total_cost == Notional(qty, price) + fee
    IN [ok |-> TRUE,
        portfolio |-> [pf EXCEPT !.cash = @ - total_cost, !.btc = @ + qty]]
portfolio_execute_buy(pf, qty, price, fee) ==
    LET total_cost == Notional(qty, price) + fee
    IN IF pf.cash < total_cost THEN [ok |-> FALSE, portfolio |-> pf]
       ELSE [ok |-> TRUE,
             portfolio |-> [pf EXCEPT !.cash = @ - total_cost, !.btc = @ + qty]]
portfolio_execute_sell(pf, qty, price, fee) ==
    LET net_proceeds == Notional(qty, price) - fee
    IN IF pf.btc < qty THEN [ok |-> FALSE, portfolio |-> pf]
       ELSE [ok |-> TRUE,
             portfolio |-> [pf EXCEPT !.btc = @ - qty, !.cash = @ + net_proceeds,
                                      !.realized_pnl = @ + (net_proceeds - Notional(qty, price))]]

\* sync_state without the running maximum: peak_equity follows the equity
sync_state_following_equity(pf, s, btc_price) ==
    LET equity == get_equity(pf, btc_price)
    IN [s EXCEPT !.total_equity = equity,
                 !.unrealized_pnl = get_unrealized_pnl(pf, btc_price),
                 !.realized_pnl = pf.realized_pnl,
                 !.current_position_qty = pf.btc,
                 !.peak_equity = equity,
                 !.current_drawdown_pct = DrawdownOf(equity, equity)]

sync_state(pf, s, btc_price) ==
    LET equity == get_equity(pf, btc_price)
        peak == IF equity > s.peak_equity THEN equity ELSE s.peak_equity
    IN [s EXCEPT !.total_equity = equity,
                 !.unrealized_pnl = get_unrealized_pnl(pf, btc_price),
                 !.realized_pnl = pf.realized_pnl,
                 !.current_position_qty = pf.btc,
                 !.peak_equity = peak,
                 !.current_drawdown_pct = DrawdownOf(peak, equity)]

\* calculate_position_size, in lots and not yet rounded: reserve_pct None or 0
\* falls back to settings.reserve_pct
calculate_position_size(available_capital, current_price, reserve_arg) ==
    LET reserve == IF reserve_arg = Null \/ reserve_arg = 0 THEN reserve_pct
                   ELSE reserve_arg
        deployable_times_10000 == available_capital * (10000 - reserve)
    IN IF deployable_times_10000 <= 0 THEN Frac(0, 1)
       ELSE Frac(deployable_times_10000 * (LotsPerBTC \div 10000), current_price)

\* a whole call of execute_buy / execute_sell with the exchange acting in
\* between: every <<engine, exchange>> the call can end in
RECURSIVE run_to_end(_)
run_to_end(S) ==
    IF \A sys \in S : sys[1].pc = "done" THEN S
    ELSE run_to_end(UNION {
             IF sys[1].pc = "done" THEN {sys}
             ELSE engine_step(sys[1], sys[2])
                  \cup {<<sys[1], ex>> : ex \in process_limit_orders(sys[2])
                                               \cup venue_expires(sys[2])}
             : sys \in S})
execute(side, qty, md, maker_first, settings_maker_first, ex) ==
    run_to_end({<<execute_start(side, qty, md, maker_first, settings_maker_first), ex>>})


\* ---------------------------------------------------------------------------
\* The trading sessions: PaperTrader, LiveTrader, Backtester
\* ---------------------------------------------------------------------------
initial_capital == 10000
DustLots == 10              \* Decimal("0.0001") BTC
maker_fee_pct == 10         \* settings.maker_fee_pct, hundredths of a percent
taker_fee_pct == 30

\* what the last start, iteration or request did
NoLast ==
    [op |-> "none", mode0 |-> None, paused0 |-> FALSE, last_buy0 |-> Null,
     paused |-> FALSE, signal |-> None, called |-> "none", via |-> None,
     success |-> FALSE, fill |-> NoFill, applied |-> FALSE, fired |-> None,
     pnl |-> 0, entry_qty |-> 0, entry_fee |-> 0, qty |-> 0, requests |-> <<>>,
     elapsed |-> 0, evaluated |-> FALSE, daily_pnl |-> 0, day |-> Null, day_pnl |-> 0,
     session_pnl |-> 0, cb |-> None, side |-> None]
\* pnl is the realized_pnl a sell handed to update_state_after_sell and
\* update_daily_pnl; entry_qty and entry_fee are the quantity and the fee of
\* the buy fill that opened the position the session holds; qty is the
\* quantity handed to the engine and requests what the engine asked of the
\* exchange for it; elapsed is the time the engine's call took.  evaluated says
\* that the iteration reached check_daily_loss_limit, and daily_pnl is the
\* counter the breaker then compared; day is the UTC date of the last sell
\* whose realized P&L the loop computed and day_pnl the sum over the sells of
\* that date; session_pnl is the sum of the realized P&L of all sells handed
\* to update_state_after_sell since the start; cb is the breaker that
\* check_all_circuit_breakers returned in the iteration, fired or not; side
\* is the side of the last order of the session that the engine reported as
\* executed
order_timeout_seconds == 30
\* _wait_for_fill returns at once on a final status and after the timeout
\* otherwise
Elapsed(call) == IF call.maker_wait = "timeout" THEN order_timeout_seconds ELSE 0
Asked(last, call) ==
    [last EXCEPT !.qty = call.qty, !.requests = call.calls, !.elapsed = Elapsed(call)]
Sold(last, timestamp, realized_pnl) ==
    [last EXCEPT !.pnl = realized_pnl,
                 !.day = DateOf(timestamp),
                 !.day_pnl = IF last.day = DateOf(timestamp) THEN @ + realized_pnl
                             ELSE realized_pnl,
                 !.session_pnl = @ + realized_pnl]
Opened(last, fill) == [last EXCEPT !.entry_qty = fill.qty, !.entry_fee = fill.fee]
Holding(s, last) ==
    [NoLast EXCEPT !.entry_qty = IF s.state = "long" THEN last.entry_qty ELSE 0,
                   !.entry_fee = IF s.state = "long" THEN last.entry_fee ELSE 0,
                   !.day = last.day,
                   !.day_pnl = last.day_pnl,
                   !.session_pnl = last.session_pnl,
                   !.side = last.side]
Traded(last) ==
    IF last.success /\ last.called \in {"buy", "sell"}
    THEN [last EXCEPT !.side = last.called]
    ELSE last
Driver(kind) ==
    [kind |-> kind, running |-> FALSE, crashed |-> FALSE, historical |-> FALSE,
     steps |-> 0, requests |-> 0, pause_cb |-> None, last |-> NoLast]

\* the objects a step of a session works on
Session(s, r, pf, ex, last) ==
    [state |-> s, risk |-> r, portfolio |-> pf, exchange |-> ex, last |-> last]

\* orders that reached a final status no longer take part in anything; the
\* session keeps the resting ones
IsResting(order) == order.status = "open"
Settled(ex) == [ex EXCEPT !.orders = SelectSeq(ex.orders, IsResting)]

\* FakeExchange.get_ticker, and the snapshot the backtester builds: 5 bps spread
fake_ticker(price) ==
    LET half == ((price * 5) \div 10000) \div 2
    IN MarketData(price - half, price + half)

\* a call of the engine during a session.  Orders that earlier calls left
\* resting take their steps between the calls, not during one.
execute_in_session(side, qty, md, maker_first, settings_maker_first, ex) ==
    { <<f[1], [f[2] EXCEPT !.orders = ex.orders \o @]>>
      : f \in execute(side, qty, md, maker_first, settings_maker_first,
                      [ex EXCEPT !.orders = <<>>]) }

\* _execute_buy of PaperTrader and LiveTrader
_execute_buy(d, md, t, settings_maker_first) ==
    LET qty == calculate_position_size(d.portfolio.cash, Mid(md), Null)
    IN IF ~(qty.n > 0) THEN {d}
       ELSE { LET out == f[1].result
                  called == Asked([d.last EXCEPT !.called = "buy", !.via = "signal",
                                                 !.success = out.success,
                                                 !.fill = out.fill], f[1])
              IN IF out.success
                 THEN [d EXCEPT !.state = update_state_after_buy(
                                              d.state, out.fill.price, out.fill.qty,
                                              t + called.elapsed),
                                !.exchange = Settled(f[2]),
                                !.last = Opened([called EXCEPT !.applied = TRUE],
                                                out.fill)]
                 ELSE [d EXCEPT !.exchange = Settled(f[2]), !.last = called]
              : f \in execute_in_session("buy", qty, md, TRUE, settings_maker_first, d.exchange) }

\* _execute_sell of PaperTrader and LiveTrader
_execute_sell(d, md, t, settings_maker_first, via) ==
    LET qty == d.portfolio.btc
    IN IF ~(qty > 0) THEN {d}
       ELSE { LET out == f[1].result
                  fill == out.fill
                  realized_pnl ==
                      IF d.state.last_buy_price # Null /\ d.state.last_buy_price # 0
                      THEN (Notional(fill.qty, fill.price) - fill.fee)
                           - Notional(fill.qty, d.state.last_buy_price)
                      ELSE 0
                  called == Asked([d.last EXCEPT !.called = "sell", !.via = via,
                                                 !.success = out.success,
                                                 !.fill = out.fill], f[1])
              IN IF out.success
                 THEN [d EXCEPT !.state = update_state_after_sell(
                                              d.state, fill.price, realized_pnl,
                                              t + called.elapsed),
                                !.risk = update_daily_pnl(d.risk, realized_pnl),
                                !.exchange = Settled(f[2]),
                                !.last = Sold([called EXCEPT !.applied = TRUE],
                                              t + called.elapsed, realized_pnl)]
                 ELSE [d EXCEPT !.exchange = Settled(f[2]), !.last = called]
              : f \in execute_in_session("sell", Frac(qty, 1), md, TRUE, settings_maker_first,
                              d.exchange) }

\* LiveTrader.emergency_flatten: a market sell of the exchange's BTC balance
\* emergency_flatten calling execute_sell with its default maker_first = True
emergency_flatten_maker_first(d, md, settings_maker_first) ==
    IF d.state.state = "long" /\ d.exchange.BTC > DustLots
    THEN { [d EXCEPT !.exchange = Settled(f[2]),
                     !.last = Asked([d.last EXCEPT !.called = "sell",
                                                   !.via = "emergency",
                                                   !.success = f[1].result.success,
                                                   !.fill = f[1].result.fill], f[1])]
           : f \in execute_in_session("sell", Frac(d.exchange.BTC, 1), md, TRUE,
                           settings_maker_first, d.exchange) }
    ELSE {d}

emergency_flatten(d, md, settings_maker_first) ==
    IF d.state.state = "long" /\ d.exchange.BTC > DustLots
    THEN { [d EXCEPT !.exchange = Settled(f[2]),
                     !.last = Asked([d.last EXCEPT !.called = "sell",
                                                   !.via = "emergency",
                                                   !.success = f[1].result.success,
                                                   !.fill = f[1].result.fill], f[1])]
           : f \in execute_in_session("sell", Frac(d.exchange.BTC, 1), md, FALSE,
                           settings_maker_first, d.exchange) }
    ELSE {d}


\* the pause written again by every breaker that returns, with its reason
pause_on_breaker_again(s, b) ==
    IF b.pause THEN [s EXCEPT !.paused = TRUE, !.pause_reason = b.text] ELSE s

\* 'if should_pause and not state.paused': the only assignment to paused
pause_on_breaker(s, b) ==
    IF b.pause /\ ~s.paused
    THEN [s EXCEPT !.paused = TRUE, !.pause_reason = b.text]
    ELSE s

\* the signal half of an iteration of _trading_loop
signal_step(d, md, c, t, h, st) ==
    LET g == generate_signal(h, d.state, md, c, st.use_trend_filter)
        d1 == [d EXCEPT !.state = g.state, !.last.signal = g.signal.signal_type]
    IN IF g.signal.signal_type = "buy" /\ d1.state.state = "flat" /\ ~d1.state.paused
       THEN _execute_buy(d1, md, t, st.maker_first)
       ELSE IF g.signal.signal_type = "sell" /\ d1.state.state = "long"
            THEN _execute_sell(d1, md, t, st.maker_first, "signal")
            ELSE {d1}

\* one iteration of _trading_loop of PaperTrader (kind "paper") or LiveTrader
\* (kind "live"): balances, sync_state, breakers, flatten, signal, execution
trading_iteration(kind, d, md, c, last_heartbeat, t, h, st) ==
    LET pf == [d.portfolio EXCEPT !.cash = d.exchange.USD, !.btc = d.exchange.BTC]
        s1 == sync_state(pf, d.state, Mid(md))
        b == check_all_circuit_breakers(d.risk, s1, md, last_heartbeat, t)
        fires == b.pause /\ ~s1.paused
        s2 == pause_on_breaker(s1, b)
        f == should_flatten_position(b.risk, s2, md, last_heartbeat, t)
        d1 == [d EXCEPT !.portfolio = pf,
                        !.state = s2,
                        !.risk = IF fires THEN f.risk ELSE b.risk,
                        !.last = [Holding(d.state, d.last) EXCEPT !.op = kind,
                                                !.mode0 = d.state.state,
                                                !.paused0 = d.state.paused,
                                                !.last_buy0 = d.state.last_buy_price,
                                                !.paused = s2.paused,
                                                !.fired = IF fires THEN b.cb ELSE None,
                                                !.cb = b.cb,
                                                !.evaluated = b.cb \notin {"max_drawdown",
                                                                           "consecutive_losses"},
                                                !.daily_pnl = b.risk.daily_pnl]]
        flattened ==
            IF fires /\ f.flatten
            THEN IF kind = "paper"
                 THEN IF s2.state = "long"
                      THEN _execute_sell(d1, md, t, st.maker_first, "flatten")
                      ELSE {d1}
                 ELSE emergency_flatten(d1, md, st.maker_first)
            ELSE {d1}
    IN UNION {signal_step(d2, md, c, t, h, st) : d2 \in flattened}

\* adjust_fill_price_for_slippage: the volatility part, (atr_pct / 5) * 5 basis
\* points, is atr_pct itself read as basis points
adjust_fill_price_for_slippage(price, side, atr_pct, is_maker) ==
    IF is_maker THEN price
    ELSE LET total_slippage == taker_slippage_bps * 100 + atr_pct  \* 1/100 bps
         IN IF side = "buy"
            THEN price + (price * total_slippage) \div 1000000
            ELSE price - (price * total_slippage + 999999) \div 1000000

calculate_trading_fee(notional, is_maker) ==
    (notional * (IF is_maker THEN maker_fee_pct ELSE taker_fee_pct)) \div 10000

\* one pass of the candle loop of Backtester.run.  The candle's timestamp is
\* the heartbeat; historical candles lie a day or more before the clock.
\* crashed: the pass raised an exception run() does not catch.
backtest_candle(d, historical, row, is_maker, t, h, st) ==
    LET price == row.close
        timestamp == IF historical THEN t - SecondsPerDay ELSE t
        md == fake_ticker(price)
        c == Candles(31, row.atr, 0, 0)
        atr_pct == calculate_atr_pct(c)
        s0 == [d.state EXCEPT !.atr_pct = atr_pct]
        b == check_all_circuit_breakers(d.risk, s0, md, timestamp, t)
        fires == b.pause /\ ~s0.paused
        s1 == pause_on_breaker(s0, b)
        g == generate_signal(h, s1, md, c, st.use_trend_filter)
        s2 == g.state
        last0 == [Holding(d.state, d.last) EXCEPT !.op = "backtest",
                                !.mode0 = d.state.state,
                                !.paused0 = d.state.paused,
                                !.last_buy0 = d.state.last_buy_price,
                                !.paused = s1.paused,
                                !.fired = IF fires THEN b.cb ELSE None,
                                !.cb = b.cb,
                                !.signal = g.signal.signal_type]
        finish(s, pf, last) ==
            [crashed |-> FALSE,
             session |-> Session(update_drawdown(sync_state(pf, s, price)),
                                 b.risk, pf, d.exchange, last)]
    IN IF g.signal.signal_type = "buy" /\ s2.state = "flat"
       THEN LET size == calculate_position_size(d.portfolio.cash, price, reserve_pct)
                qty == size.n \div size.d
                fill_price == adjust_fill_price_for_slippage(price, "buy", atr_pct,
                                                             is_maker)
                fee == calculate_trading_fee(Notional(qty, fill_price), is_maker)
                bought == portfolio_execute_buy(d.portfolio, qty, fill_price, fee)
                called == [last0 EXCEPT !.called = "buy", !.via = "signal"]
            IN IF ~(qty > 0) THEN finish(s2, d.portfolio, last0)
               ELSE IF bought.ok
               THEN finish(update_state_after_buy(s2, fill_price, qty, timestamp),
                           bought.portfolio,
                           [called EXCEPT !.success = TRUE,
                                          !.fill = OrderFill(Null, "buy", qty,
                                                             fill_price, fee),
                                          !.applied = TRUE,
                                          !.entry_qty = qty,
                                          !.entry_fee = fee])
               ELSE finish(s2, d.portfolio, called)
       ELSE IF g.signal.signal_type = "sell" /\ s2.state = "long"
                  /\ d.portfolio.btc > 0
       \* realized_pnl = exit_revenue - float(entry_cost): Decimal - float
       THEN [crashed |-> TRUE,
             session |-> Session(s2, b.risk, d.portfolio, d.exchange, last0)]
       ELSE finish(s2, d.portfolio, last0)

\* ---------------------------------------------------------------------------
\* The sessions as a state machine
\* ---------------------------------------------------------------------------
MaxSteps == 5               \* starts, iterations and requests of one session
MaxRequests == 1            \* POST /emergency-flatten requests of one session
Kinds == {"paper", "live", "backtest"}
Prices == {50000, 47500, 37000}
WideSpread(price) == MarketData(price - 50, price + 50)
\* what the live account holds at start: all cash, or cash and 0.1 BTC
LiveBalances == {<<10000, 0>>, <<5000, 10000>>}
\* a live iteration's ticker, candle window and heartbeat age; the heartbeat
\* is old only when the requests of the iteration were slow and the candles
\* could not be fetched
LiveTicks ==
    {[md |-> fake_ticker(p), c |-> Candles(30, 300, 0, 0), age |-> 0] : p \in Prices}
    \cup {[md |-> WideSpread(50000), c |-> Candles(30, 300, 0, 0), age |-> 0],
          [md |-> fake_ticker(47500), c |-> Candles(30, 150, 0, 0), age |-> 0],
          [md |-> fake_ticker(47500), c |-> NoCandles, age |-> 6]}
PaperPrices == Prices \cup {35000}
BacktestRows == {[close |-> p, atr |-> a] : p \in Prices, a \in {300, 150}}

\* the sessions start three seconds before UTC midnight
Evening == 11 * SecondsPerDay - 3

constVars == <<strategy, settings, ret, engine>>

Init ==
    /\ driver \in {Driver(k) : k \in Kinds}
    /\ risk = RiskManager
    /\ market = fake_ticker(50000)
    /\ candles = NoCandles
    /\ heartbeat = Null
    /\ now = Evening
    /\ strategy = VolatilityHarvester(buy_threshold_pct, sell_threshold_pct, TRUE)
    /\ \E maker \in BOOLEAN : settings = Settings(FALSE, maker)
    /\ ret = NotCalled
    /\ engine = NoEngine
    /\ state = IF driver.kind = "paper"
               THEN [StrategyStateData EXCEPT !.total_equity = initial_capital,
                                             !.peak_equity = initial_capital]
               ELSE StrategyStateData
    /\ portfolio = IF driver.kind = "paper" THEN Portfolio(initial_capital, 0)
                   ELSE NoPortfolio
    /\ exchange \in
         CASE driver.kind = "paper" -> {Exchange("fake", 10000, 0)}
           [] driver.kind = "live" ->
                {Exchange(a, b[1], b[2]) : a \in {"coinbase", "binance"},
                                           b \in LiveBalances}
           [] OTHER -> {NoExchange}

CanStep(kind) ==
    /\ driver.kind = kind
    /\ ~driver.crashed
    /\ driver.steps < MaxSteps

Started == [NoLast EXCEPT !.op = "start"]

\* PaperTrader.start
PaperStart ==
    /\ CanStep("paper") /\ ~driver.running
    /\ exchange' = [exchange EXCEPT !.USD = portfolio.cash, !.BTC = portfolio.btc]
    /\ heartbeat' = now
    /\ driver' = [driver EXCEPT !.running = TRUE, !.steps = @ + 1, !.last = Started]
    /\ UNCHANGED <<state, risk, market, candles, now, portfolio, constVars>>

\* LiveTrader.start
LiveStart ==
    /\ CanStep("live") /\ ~driver.running
    /\ \E p \in {50000} :
         LET ticker == fake_ticker(p)
             cash == exchange.USD
             btc == exchange.BTC
             total_equity == cash + Notional(btc, Mid(ticker))
             s1 == [state EXCEPT !.total_equity = total_equity,
                                 !.peak_equity = total_equity]
         IN /\ market' = ticker
            /\ portfolio' = Portfolio(cash, btc)
            /\ state' = IF btc > DustLots
                        THEN [s1 EXCEPT !.state = "long",
                                        !.current_position_qty = btc]
                        ELSE [s1 EXCEPT !.state = "flat"]
    /\ heartbeat' = now
    /\ driver' = [driver EXCEPT !.running = TRUE, !.steps = @ + 1, !.last = Started]
    /\ UNCHANGED <<risk, candles, now, exchange, constVars>>

\* the first lines of Backtester.run
BacktestBegin ==
    /\ CanStep("backtest") /\ ~driver.running
    /\ state' = [StrategyStateData EXCEPT !.total_equity = initial_capital,
                                         !.peak_equity = initial_capital]
    /\ portfolio' = Portfolio(initial_capital, 0)
    /\ \E historical \in BOOLEAN :
         driver' = [driver EXCEPT !.running = TRUE, !.historical = historical,
                                  !.steps = @ + 1, !.last = Started]
    /\ UNCHANGED <<risk, market, candles, heartbeat, now, exchange, constVars>>

Here == Session(state, risk, portfolio, exchange, driver.last)
Becomes(d) ==
    /\ state' = d.state
    /\ risk' = d.risk
    /\ portfolio' = d.portfolio
    /\ exchange' = d.exchange
    /\ driver' = [driver EXCEPT !.steps = @ + 1,
                                !.last = Traded(d.last),
                                !.pause_cb = IF d.last.fired # None
                                             THEN d.last.fired ELSE @]

\* one iteration of PaperTrader._trading_loop and the sleep after it
PaperIteration ==
    /\ CanStep("paper") /\ driver.running
    /\ \E p \in PaperPrices :
         /\ market' = fake_ticker(p)
         /\ \E d \in trading_iteration("paper", Here, fake_ticker(p), NoCandles,
                                       now, now, strategy, settings) :
              /\ Becomes(d)
              /\ now' = now + d.last.elapsed + 1
    /\ heartbeat' = now
    /\ UNCHANGED <<candles, constVars>>

\* one iteration of LiveTrader._trading_loop and the sleep after it
LiveIteration ==
    /\ CanStep("live") /\ driver.running
    /\ \E tick \in LiveTicks :
         /\ market' = tick.md
         /\ candles' = tick.c
         /\ heartbeat' = now - tick.age
         /\ \E d \in trading_iteration("live", Here, tick.md, tick.c,
                                       now - tick.age, now, strategy, settings) :
              /\ Becomes(d)
              /\ now' = now + d.last.elapsed + 5
    /\ UNCHANGED constVars

\* POST /emergency-flatten
EmergencyFlattenRequest ==
    /\ CanStep("live") /\ driver.running
    /\ driver.requests < MaxRequests
    /\ \E d \in emergency_flatten(
                    [Here EXCEPT !.last = [Holding(state, driver.last) EXCEPT
                                              !.op = "emergency",
                                              !.mode0 = state.state,
                                              !.paused0 = state.paused,
                                              !.last_buy0 = state.last_buy_price,
                                              !.paused = state.paused]],
                    market, settings.maker_first) :
         /\ state' = d.state
         /\ risk' = d.risk
         /\ portfolio' = d.portfolio
         /\ exchange' = d.exchange
         /\ driver' = [driver EXCEPT !.steps = @ + 1, !.requests = @ + 1,
                                     !.last = Traded(d.last)]
    /\ UNCHANGED <<market, candles, heartbeat, now, constVars>>

\* one pass of the candle loop of Backtester.run
BacktestCandle ==
    /\ CanStep("backtest") /\ driver.running
    /\ \E row \in BacktestRows, is_maker \in BOOLEAN :
         LET out == backtest_candle(Here, driver.historical, row, is_maker, now,
                                    strategy, settings)
             d == out.session
         IN /\ market' = fake_ticker(row.close)
            /\ candles' = Candles(31, row.atr, 0, 0)
            /\ state' = d.state
            /\ risk' = d.risk
            /\ portfolio' = d.portfolio
            /\ driver' = [driver EXCEPT !.steps = @ + 1,
                                        !.crashed = out.crashed,
                                        !.running = ~out.crashed,
                                        !.last = Traded(d.last),
                                        !.pause_cb = IF d.last.fired # None
                                                     THEN d.last.fired ELSE @]
    /\ UNCHANGED <<heartbeat, now, exchange, constVars>>

\* a maker order that could not be cancelled fills, or the venue expires it,
\* while the session runs
RestingOrderFills ==
    /\ driver.running
    /\ exchange' \in {Settled(ex) : ex \in process_limit_orders(exchange)}
    /\ UNCHANGED <<state, risk, market, candles, heartbeat, now, portfolio, driver,
                   constVars>>

RestingOrderExpires ==
    /\ driver.running
    /\ exchange' \in {Settled(ex) : ex \in venue_expires(exchange)}
    /\ UNCHANGED <<state, risk, market, candles, heartbeat, now, portfolio, driver,
                   constVars>>

Next ==
    \/ PaperStart
    \/ LiveStart
    \/ BacktestBegin
    \/ PaperIteration
    \/ LiveIteration
    \/ EmergencyFlattenRequest
    \/ BacktestCandle
    \/ RestingOrderFills
    \/ RestingOrderExpires

Spec == Init /\ [][Next]_vars

\* ---------------------------------------------------------------------------
\* Claims about the sessions
\* ---------------------------------------------------------------------------
Iterations == {"paper", "live", "backtest"}
SoftBreakers == {"consecutive_losses", "daily_loss_limit", "low_volatility",
                 "high_volatility", "spread_too_wide"}
BuyThresholdUsed ==
    IF candles.len # Null /\ candles.len >= 15
    THEN adapt_thresholds(strategy, candles.atr)[1]
    ELSE strategy.buy_threshold_pct

\* C5: in every state of a started session, mode FLAT implies a position
\* quantity of 0, and mode LONG implies a positive position quantity and a
\* last_buy_price that is set.
C5_ModeMatchesPosition ==
    driver.last.op # "none" =>
        /\ state.state = "flat" => state.current_position_qty = 0
        /\ state.state = "long" =>
               state.current_position_qty > 0 /\ state.last_buy_price # Null

\* C6: the fill of a successful execution has been applied to the strategy
\* state: after a successful sell (signal, breaker flatten or
\* emergency_flatten) update_state_after_sell has run and mode is FLAT, after
\* a successful buy update_state_after_buy has run and mode is LONG.
C6_FillConsumedOnce ==
    driver.last.success =>
        /\ driver.last.applied
        /\ driver.last.called = "sell" => state.state = "flat"
        /\ driver.last.called = "buy" => state.state = "long"

\* C2: a strategy paused by consecutive losses, daily loss, the volatility
\* band or the spread while LONG still exits: in a later iteration whose
\* price is at least the sell threshold above last_buy_price, a SELL signal
\* is produced and the driver executes the sell.
C2_PausedLongStillExits ==
    ( /\ driver.last.op \in Iterations
      /\ driver.last.paused0
      /\ driver.pause_cb \in SoftBreakers
      /\ driver.last.mode0 = "long"
      /\ driver.last.last_buy0 # Null
      /\ (Mid(market) - driver.last.last_buy0) * 10000
             >= SellThresholdUsed * driver.last.last_buy0 )
    => /\ driver.last.signal = "sell"
       /\ driver.last.called = "sell"

\* C7: while the strategy is paused no driver places a BUY order: in every
\* iteration that runs paused, the one in which the breaker fires included,
\* no buy is executed and a FLAT strategy ends the iteration FLAT.
C7_NoBuyWhilePaused ==
    (driver.last.op \in Iterations /\ driver.last.paused) =>
        /\ driver.last.called # "buy"
        /\ driver.last.mode0 = "flat" => state.state = "flat"

\* an iteration that began paused and FLAT, at a price the buy threshold or
\* more below last_peak
C7_Witness ==
    /\ driver.last.op \in Iterations
    /\ driver.last.paused0
    /\ driver.last.mode0 = "flat"
    /\ state.last_peak # Null
    /\ (state.last_peak - Mid(market)) * 10000 >= BuyThresholdUsed * state.last_peak
    /\ driver.last.signal = "hold"
    /\ state.state = "flat"


\* C14: across the iterations of a session, with their sync_state and
\* update_drawdown calls, peak_equity never decreases and
\* current_drawdown_pct stays within 0 and 100 per cent.
C14_PeakMonotoneDrawdownBounded ==
    /\ [](FracGE(state.current_drawdown_pct, 0)
            /\ FracLE(state.current_drawdown_pct, 10000))
    /\ [][state'.peak_equity >= state.peak_equity]_vars

\* the equity has fallen 20 per cent or more below an earlier peak
C14_Witness ==
    /\ driver.last.op \in Iterations
    /\ state.peak_equity > state.total_equity
    /\ FracGE(state.current_drawdown_pct, 2000)
    /\ state.current_drawdown_pct
           = Frac((state.peak_equity - state.total_equity) * 10000, state.peak_equity)

\* C16: while the mode stays LONG last_trough never increases from one
\* generate_signal call to the next, in every kind of session.
C16_TroughNonIncreasing ==
    [][(state.state = "long" /\ state'.state = "long" /\ state.last_trough # Null)
        => (state'.last_trough # Null /\ state'.last_trough <= state.last_trough)]_vars

\* an iteration in LONG mode has moved the trough below the entry price
C16_Witness ==
    /\ driver.last.op \in Iterations
    /\ driver.last.mode0 = "long"
    /\ state.state = "long"
    /\ state.last_buy_price # Null
    /\ state.last_trough # Null
    /\ state.last_trough < state.last_buy_price
    /\ state.last_trough = Mid(market)

\* C17: a completed round trip, a buy of q at p with fee f1 and then a sell of
\* the same q at p' with fee f2, hands q*(p' - p) - f1 - f2 as realized P&L
\* to update_state_after_sell and to the daily-P&L counter.
C17_RoundTripPnl ==
    ( /\ driver.last.called = "sell"
      /\ driver.last.applied
      /\ driver.last.last_buy0 # Null
      /\ driver.last.entry_qty = driver.last.fill.qty )
    => driver.last.pnl
         = Notional(driver.last.fill.qty, driver.last.fill.price)
           - Notional(driver.last.fill.qty, driver.last.last_buy0)
           - driver.last.entry_fee - driver.last.fill.fee

(***************************************************************************)
(* SpecSize: calculate_position_size applied once to the cash, the price   *)
(* and the reserve argument a caller can pass; Null is the argument left   *)
(* out, as PaperTrader and LiveTrader call it.                             *)
(***************************************************************************)
SizeCash == {0, 1, 9, 10, 100, 5000, 9200, 10000}
SizePrices == {1, 35000, 37000, 47500, 50000}
SizeReserves == {Null, 0, 1, 800, 1000, 5000, 10000}

InitSize ==
    /\ strategy = VolatilityHarvester(buy_threshold_pct, sell_threshold_pct, TRUE)
    /\ state = StrategyStateData
    /\ risk = RiskManager
    /\ market = Snapshot(50000)
    /\ candles = NoCandles
    /\ heartbeat = Today
    /\ now = Today
    /\ settings = Settings(FALSE, TRUE)
    /\ \E cash \in SizeCash, price \in SizePrices, reserve \in SizeReserves :
          ret = [op |-> "none", available_capital |-> cash,
                 current_price |-> price, reserve_pct |-> reserve,
                 value |-> Zero]
    /\ Unused

CalculatePositionSize ==
    /\ ret.op = "none"
    /\ ret' = [ret EXCEPT !.op = "calculate_position_size",
                          !.value = calculate_position_size(
                                        ret.available_capital, ret.current_price,
                                        ret.reserve_pct)]
    /\ UNCHANGED <<state, risk, market, candles, heartbeat, now, strategy, settings>>
    /\ UNCHANGED sessionVars

NextSize == CalculatePositionSize

SpecSize == InitSize /\ [][NextSize]_vars

\* available_cash * (100 - reserve_pct) / 100 / price in lots, or 0 when the
\* deployable amount is not positive
DeployableLots(cash, price, reserve) ==
    IF cash * (10000 - reserve) <= 0 THEN Zero
    ELSE Frac(cash * (10000 - reserve) * (LotsPerBTC \div 10000), price)
\* two quotients over the same price are equal
SameSize(a, b) == a.n = b.n /\ a.d = b.d

\* C20: for every available cash, every price > 0 and every reserve_pct
\* passed explicitly in [0, 100], calculate_position_size returns
\* available_cash*(100 - reserve_pct)/100/price, or 0 when the deployable
\* amount is <= 0; reserve 0 deploys all the cash.
C20_SizeIsDeployableOverPrice ==
    (ret.op = "calculate_position_size" /\ ret.reserve_pct # Null)
    => SameSize(ret.value, DeployableLots(ret.available_capital, ret.current_price,
                                          ret.reserve_pct))

(***************************************************************************)
(* SpecAdapt: adapt_thresholds applied MaxCalls times in a row by a        *)
(* strategy built with its own swing range, to ATR values on both sides of *)
(* and between atr_min = 2 % and atr_max = 6 %.                            *)
(***************************************************************************)
SwingInputs == {50, 200, 300, 800, 1000, 2000}
AdaptAtrInputs == {0, 1, 150, 199, 200, 201, 250, 300, 301, 399, 400, 450, 599,
                   600, 601, 700, 5000}

InitAdapt ==
    /\ \E adaptive \in BOOLEAN, lo \in SwingInputs, hi \in SwingInputs :
          /\ lo <= hi
          /\ strategy = [VolatilityHarvester(buy_threshold_pct, sell_threshold_pct,
                                             adaptive)
                            EXCEPT !.min_swing_pct = lo, !.max_swing_pct = hi]
    /\ state = StrategyStateData
    /\ risk = RiskManager
    /\ market = Snapshot(50000)
    /\ candles = NoCandles
    /\ heartbeat = Today
    /\ now = Today
    /\ settings = Settings(FALSE, TRUE)
    /\ ret = [op |-> "none", n |-> 0, atr_pct |-> 0, value |-> <<0, 0>>,
              atr_pct0 |-> 0, value0 |-> <<0, 0>>]
    /\ Unused

AdaptThresholds ==
    /\ ret.n < MaxCalls
    /\ \E atr_pct \in AdaptAtrInputs :
         ret' = [op |-> "adapt_thresholds", n |-> ret.n + 1,
                 atr_pct |-> atr_pct, value |-> adapt_thresholds(strategy, atr_pct),
                 atr_pct0 |-> ret.atr_pct, value0 |-> ret.value]
    /\ UNCHANGED <<state, risk, market, candles, heartbeat, now, strategy, settings>>
    /\ UNCHANGED sessionVars

NextAdapt == AdaptThresholds

SpecAdapt == InitAdapt /\ [][NextAdapt]_vars

\* t is min_swing + (atr - 2)/(6 - 2) * (max_swing - min_swing) to the hundredth
\* of a per cent
IsInterpolation(t, h, atr_pct) ==
    LET exact_times_400 ==
            h.min_swing_pct * 400 + (atr_pct - 200) * (h.max_swing_pct - h.min_swing_pct)
    IN t * 400 <= exact_times_400 /\ exact_times_400 < (t + 1) * 400

\* C21: with adaptation enabled and min_swing_pct <= max_swing_pct the
\* adapted thresholds never decrease when the volatility grows and lie in
\* [min_swing_pct, max_swing_pct]: min_swing_pct up to 2 %, max_swing_pct from
\* 6 %, the linear interpolation in between; swings [2, 8]: 1.5 gives 2.0 and
\* 7 gives 8.0.
C21_AdaptedMonotoneAndBounded ==
    (ret.op = "adapt_thresholds" /\ strategy.adaptive) =>
      \A i \in {1, 2} :
        /\ strategy.min_swing_pct <= ret.value[i]
        /\ ret.value[i] <= strategy.max_swing_pct
        /\ ret.atr_pct <= 200 => ret.value[i] = strategy.min_swing_pct
        /\ ret.atr_pct >= 600 => ret.value[i] = strategy.max_swing_pct
        /\ (200 < ret.atr_pct /\ ret.atr_pct < 600)
              => IsInterpolation(ret.value[i], strategy, ret.atr_pct)
        /\ (ret.n >= 2 /\ ret.atr_pct0 <= ret.atr_pct) => ret.value0[i] <= ret.value[i]
        /\ (strategy.min_swing_pct = 200 /\ strategy.max_swing_pct = 800)
              => /\ ret.atr_pct = 150 => ret.value[i] = 200
                 /\ ret.atr_pct = 700 => ret.value[i] = 800
                 /\ ret.atr_pct = 300 => ret.value[i] = 350

\* two calls with swings [2, 8]: 1.5 % gives 2.0, then 4.5 % gives 5.75
C21_Witness ==
    /\ ret.op = "adapt_thresholds"
    /\ strategy.adaptive
    /\ strategy.min_swing_pct = 200 /\ strategy.max_swing_pct = 800
    /\ ret.n = 2
    /\ ret.atr_pct0 = 150 /\ ret.value0 = <<200, 200>>
    /\ ret.atr_pct = 450 /\ ret.value = <<575, 575>>

(***************************************************************************)
(* SpecLedger: execute_buy and execute_sell called MaxCalls times in a row *)
(* on a Portfolio, with quantities, prices and fees on both sides of what  *)
(* the cash and the position cover.                                        *)
(***************************************************************************)
LedgerCash == {0, 100, 5000, 10000}
LedgerBtc == {0, 20, 10000}
LedgerQtys == {0, 1, 20, 10000, 20000}
LedgerPrices == {35000, 50000}
LedgerFees == {0, 1, 10}

InitLedger ==
    /\ \E cash \in LedgerCash, btc \in LedgerBtc : portfolio = Portfolio(cash, btc)
    /\ strategy = VolatilityHarvester(buy_threshold_pct, sell_threshold_pct, TRUE)
    /\ state = StrategyStateData
    /\ risk = RiskManager
    /\ market = Snapshot(50000)
    /\ candles = NoCandles
    /\ heartbeat = Today
    /\ now = Today
    /\ settings = Settings(FALSE, TRUE)
    /\ ret = [op |-> "none", n |-> 0]
    /\ exchange = NoExchange
    /\ engine = NoEngine
    /\ driver = NoDriver

LedgerCall(op, qty, price, fee, out) ==
    /\ portfolio' = out.portfolio
    /\ ret' = [op |-> op, n |-> ret.n + 1, qty |-> qty, price |-> price, fee |-> fee,
               ok |-> out.ok, portfolio0 |-> portfolio]

LedgerBuy ==
    /\ ret.n < MaxCalls
    /\ \E qty \in LedgerQtys, price \in LedgerPrices, fee \in LedgerFees :
         LedgerCall("execute_buy", qty, price, fee,
                    portfolio_execute_buy(portfolio, qty, price, fee))
    /\ UNCHANGED <<state, risk, market, candles, heartbeat, now, strategy, settings,
                   exchange, engine, driver>>

LedgerSell ==
    /\ ret.n < MaxCalls
    /\ \E qty \in LedgerQtys, price \in LedgerPrices, fee \in LedgerFees :
         LedgerCall("execute_sell", qty, price, fee,
                    portfolio_execute_sell(portfolio, qty, price, fee))
    /\ UNCHANGED <<state, risk, market, candles, heartbeat, now, strategy, settings,
                   exchange, engine, driver>>

NextLedger == LedgerBuy \/ LedgerSell

SpecLedger == InitLedger /\ [][NextLedger]_vars

SameLedger(a, b) ==
    a.cash = b.cash /\ a.btc = b.btc /\ a.realized_pnl = b.realized_pnl

\* C22: execute_buy fails when cash < qty*price + fee and execute_sell fails
\* when position < qty, a failed call leaving cash, position and realized
\* P&L as they were; a successful buy takes exactly qty*price + fee from the
\* cash and adds qty to the position, a successful sell adds exactly
\* qty*price - fee to the cash and takes qty from the position.
C22_LedgerBuySell ==
    /\ ret.op = "execute_buy" =>
          LET cost == Notional(ret.qty, ret.price) + ret.fee IN
          /\ ret.portfolio0.cash < cost => ~ret.ok
          /\ ~ret.ok => SameLedger(portfolio, ret.portfolio0)
          /\ ret.ok => /\ portfolio.cash = ret.portfolio0.cash - cost
                       /\ portfolio.btc = ret.portfolio0.btc + ret.qty
    /\ ret.op = "execute_sell" =>
          LET proceeds == Notional(ret.qty, ret.price) - ret.fee IN
          /\ ret.portfolio0.btc < ret.qty => ~ret.ok
          /\ ~ret.ok => SameLedger(portfolio, ret.portfolio0)
          /\ ret.ok => /\ portfolio.cash = ret.portfolio0.cash + proceeds
                       /\ portfolio.btc = ret.portfolio0.btc - ret.qty

\* a buy that takes all the cash to the dollar, then a sell above the position
C22_Witness ==
    /\ ret.op = "execute_sell"
    /\ ret.n = 2
    /\ ~ret.ok
    /\ ret.portfolio0.cash = 0
    /\ ret.portfolio0.btc = 10000
    /\ ret.qty = 20000
    /\ portfolio = ret.portfolio0

\* the call is one the statement covers: qty >= 0 and 0 <= fee <= qty * price
FeeWithinNotional ==
    /\ ret.qty >= 0
    /\ ret.fee >= 0
    /\ ret.fee * LotsPerBTC <= ret.qty * ret.price
\* the amounts of the call are whole dollars, so that the ledger of the
\* model carries them without rounding
WholeDollars ==
    /\ (ret.qty * ret.price) % LotsPerBTC = 0
    /\ (ret.portfolio0.btc * ret.price) % LotsPerBTC = 0

\* C40: a call of execute_buy or execute_sell with qty >= 0 and
\* 0 <= fee <= qty * price on a portfolio whose cash and position are not
\* negative leaves neither negative, whether it succeeds or fails, and a
\* successful call changes the equity marked at the trade price by exactly
\* -fee.
C40_LedgerNeverNegative ==
    ( /\ ret.op \in {"execute_buy", "execute_sell"}
      /\ ret.portfolio0.cash >= 0
      /\ ret.portfolio0.btc >= 0
      /\ FeeWithinNotional )
    => /\ portfolio.cash >= 0
       /\ portfolio.btc >= 0
       /\ (ret.ok /\ WholeDollars) =>
             get_equity(portfolio, ret.price)
                 = get_equity(ret.portfolio0, ret.price) - ret.fee
       /\ ~ret.ok => get_equity(portfolio, ret.price)
                         = get_equity(ret.portfolio0, ret.price)

\* a sell whose fee is the whole of its revenue, after a buy that took
\* all the cash
C40_Witness ==
    /\ ret.op = "execute_sell"
    /\ ret.n = 2
    /\ ret.ok
    /\ ret.qty = 20 /\ ret.price = 50000 /\ ret.fee = 10
    /\ ret.portfolio0.cash = 0
    /\ ret.portfolio0.btc = 10020
    /\ portfolio.cash = 0
    /\ portfolio.btc = 10000
    /\ get_equity(portfolio, 50000) = get_equity(ret.portfolio0, 50000) - 10

\* C23: emergency_flatten asks the engine to sell the whole BTC balance and
\* the engine places a market order for it and nothing else: no post-only
\* or limit order, whatever settings.maker_first is.
C23_EmergencyFlattenMarketOnly ==
    [][ ( /\ driver'.steps # driver.steps
          /\ driver'.last.via = "emergency"
          /\ driver'.last.called = "sell" )
        => /\ driver'.last.requests \in {<<>>, <<"place_order:market">>}
           /\ driver'.last.qty = exchange.BTC
           /\ driver'.last.success => /\ driver'.last.fill.qty = exchange.BTC
                                      /\ exchange'.BTC = 0 ]_vars

\* the breaker of an iteration flattened a position at the market
C23_Witness ==
    /\ driver.last.op = "live"
    /\ driver.last.via = "emergency"
    /\ driver.last.called = "sell"
    /\ driver.last.requests = <<"place_order:market">>
    /\ driver.last.success
    /\ driver.last.fill.qty = portfolio.btc
    /\ settings.maker_first
    /\ exchange.BTC = 0

\* C25: whenever an iteration reaches the daily-loss breaker, the counter the
\* breaker compares is the sum of the realized P&L of the sells executed on
\* the UTC date of the evaluation: none of that date is missing, none of an
\* earlier date is counted.
C25_DailyPnlIsTodaysSells ==
    [][ ( /\ driver'.steps # driver.steps
          /\ driver'.last.op \in {"paper", "live"}
          /\ driver'.last.evaluated )
        => driver'.last.daily_pnl = IF driver.last.day = DateOf(now)
                                    THEN driver.last.day_pnl ELSE 0 ]_vars

\* C26: at the end of every iteration of a driving loop state.realized_pnl is
\* the sum of the realized P&L values handed to update_state_after_sell since
\* the session started.
C26_RealizedPnlCumulative ==
    driver.last.op \in {"paper", "live", "backtest"}
    => state.realized_pnl = driver.last.session_pnl

\* ---------------------------------------------------------------------------
\* The state updates one at a time: update_state_after_buy,
\* update_state_after_sell and update_drawdown on states of a session
\* ---------------------------------------------------------------------------
\* consecutive_wins, consecutive_losses, total_trades, winning_trades and the
\* realized P&L that goes with them
StreakInputs == {<<0, 0, 0, 0, 0>>, <<2, 0, 3, 2, 310>>, <<0, 2, 3, 1, 0 - 120>>}
\* mode, last_peak, last_trough, last_buy_price, last_sell_price, position
PositionInputs == {<<"flat", Null, Null, Null, Null, 0>>,
                   <<"flat", 50000, 46000, 47500, 49000, 0>>,
                   <<"long", 50000, 47000, 47500, Null, 20000>>}
\* total_equity and peak_equity as the last sync_state left them
EquityPairs == {<<0, 0>>, <<10000, 10000>>, <<9000, 10000>>}
UpdatePrices == {47500, 50500}
UpdatePnls == {0 - 100, 0, 250}
UpdateEquities == {0, 8500, 10000, 10400}

InitUpdates ==
    /\ \E k \in StreakInputs, pos \in PositionInputs, eq \in EquityPairs,
          paused \in BOOLEAN :
         state = [StrategyStateData EXCEPT
                     !.consecutive_wins = k[1], !.consecutive_losses = k[2],
                     !.total_trades = k[3], !.winning_trades = k[4],
                     !.realized_pnl = k[5],
                     !.state = pos[1], !.last_peak = pos[2], !.last_trough = pos[3],
                     !.last_buy_price = pos[4], !.last_sell_price = pos[5],
                     !.current_position_qty = pos[6],
                     !.total_equity = eq[1], !.peak_equity = eq[2],
                     !.current_drawdown_pct = DrawdownOf(eq[2], eq[1]),
                     !.paused = paused,
                     !.pause_reason = IF paused THEN "Spread too wide" ELSE None]
    /\ strategy = VolatilityHarvester(buy_threshold_pct, sell_threshold_pct, TRUE)
    /\ risk = RiskManager
    /\ market = Snapshot(50000)
    /\ candles = NoCandles
    /\ heartbeat = Today
    /\ now = Today
    /\ settings = Settings(FALSE, TRUE)
    /\ ret = [op |-> "none", n |-> 0, fill_price |-> Null, qty |-> 0,
              realized_pnl |-> 0, state0 |-> StrategyStateData]
    /\ exchange = NoExchange
    /\ engine = NoEngine
    /\ portfolio = NoPortfolio
    /\ driver = NoDriver

updateFrame == <<risk, market, candles, heartbeat, now, strategy, settings,
                 exchange, engine, portfolio, driver>>

UpdateStateAfterBuy ==
    /\ ret.n < MaxCalls
    /\ \E fill_price \in UpdatePrices, qty \in {20000} :
         /\ state' = update_state_after_buy(state, fill_price, qty, now)
         /\ ret' = [op |-> "update_state_after_buy", n |-> ret.n + 1,
                    fill_price |-> fill_price, qty |-> qty, realized_pnl |-> 0,
                    state0 |-> state]
    /\ UNCHANGED updateFrame

UpdateStateAfterSell ==
    /\ ret.n < MaxCalls
    /\ \E fill_price \in {50500}, realized_pnl \in UpdatePnls :
         /\ state' = update_state_after_sell(state, fill_price, realized_pnl, now)
         /\ ret' = [op |-> "update_state_after_sell", n |-> ret.n + 1,
                    fill_price |-> fill_price, qty |-> 0,
                    realized_pnl |-> realized_pnl, state0 |-> state]
    /\ UNCHANGED updateFrame

\* the caller stores the equity it computed and calls update_drawdown
UpdateDrawdown ==
    /\ ret.n < MaxCalls
    /\ \E total_equity \in UpdateEquities :
         LET s0 == [state EXCEPT !.total_equity = total_equity] IN
         /\ state' = update_drawdown(s0)
         /\ ret' = [op |-> "update_drawdown", n |-> ret.n + 1, fill_price |-> Null,
                    qty |-> 0, realized_pnl |-> 0, state0 |-> s0]
    /\ UNCHANGED updateFrame

NextUpdates == UpdateStateAfterBuy \/ UpdateStateAfterSell \/ UpdateDrawdown

SpecUpdates == InitUpdates /\ [][NextUpdates]_vars

\* C27: update_state_after_sell with a realized P&L above 0 adds one to
\* consecutive_wins and winning_trades and sets consecutive_losses to 0; with
\* a realized P&L below 0 it adds one to consecutive_losses and sets
\* consecutive_wins to 0; either way total_trades grows by exactly 1.
C27_SellCountsStreaks ==
    ret.op = "update_state_after_sell" =>
        /\ ret.realized_pnl > 0 =>
              /\ state.consecutive_wins = ret.state0.consecutive_wins + 1
              /\ state.winning_trades = ret.state0.winning_trades + 1
              /\ state.consecutive_losses = 0
        /\ ret.realized_pnl < 0 =>
              /\ state.consecutive_losses = ret.state0.consecutive_losses + 1
              /\ state.consecutive_wins = 0
        /\ ret.realized_pnl # 0 =>
              state.total_trades = ret.state0.total_trades + 1

\* a losing sell that ends a streak of two wins, after another call
C27_Witness ==
    /\ ret.op = "update_state_after_sell"
    /\ ret.n = 2
    /\ ret.realized_pnl < 0
    /\ ret.state0.consecutive_wins = 2
    /\ state.consecutive_wins = 0
    /\ state.consecutive_losses = 1
    /\ state.total_trades = 4

\* C28: update_state_after_buy sets the mode to LONG, last_buy_price and
\* last_trough to the fill price and the position to the filled quantity,
\* and leaves last_peak, last_sell_price, realized_pnl, the streak and trade
\* counters and the paused flag as they were.
C28_BuyFrame ==
    ret.op = "update_state_after_buy" =>
        /\ state.state = "long"
        /\ state.last_buy_price = ret.fill_price
        /\ state.current_position_qty = ret.qty
        /\ state.last_trough = ret.fill_price
        /\ state.last_peak = ret.state0.last_peak
        /\ state.last_sell_price = ret.state0.last_sell_price
        /\ state.realized_pnl = ret.state0.realized_pnl
        /\ state.consecutive_wins = ret.state0.consecutive_wins
        /\ state.consecutive_losses = ret.state0.consecutive_losses
        /\ state.total_trades = ret.state0.total_trades
        /\ state.winning_trades = ret.state0.winning_trades
        /\ state.paused = ret.state0.paused

\* a buy at 47500 from FLAT with a peak of 50000 and a trough of 46000
C28_Witness ==
    /\ ret.op = "update_state_after_buy"
    /\ ret.state0.state = "flat"
    /\ ret.state0.last_peak = 50000
    /\ ret.state0.last_trough = 46000
    /\ ret.fill_price = 47500
    /\ state.last_trough = 47500
    /\ state.last_peak = 50000
    /\ state.total_trades = 3

\* equality of two percentages without multiplying out large numerators
SamePct(f, g) ==
    IF f.n = 0 \/ g.n = 0 \/ f.d = g.d THEN f.n = g.n /\ (f.n = 0 \/ f.d = g.d)
    ELSE FracEq(f, g)

\* C29: update_drawdown never lowers peak_equity, sets current_drawdown_pct
\* to 0 whenever total_equity is a new peak, and a second call with the same
\* total_equity leaves peak_equity and current_drawdown_pct as the first did.
C29_DrawdownIdempotentMonotone ==
    ret.op = "update_drawdown" =>
        /\ state.peak_equity >= ret.state0.peak_equity
        /\ ret.state0.total_equity > ret.state0.peak_equity =>
              /\ state.peak_equity = ret.state0.total_equity
              /\ SamePct(state.current_drawdown_pct, Zero)
        /\ update_drawdown(state).peak_equity = state.peak_equity
        /\ SamePct(update_drawdown(state).current_drawdown_pct,
                   state.current_drawdown_pct)

\* a new peak of 10400 after a drawdown of 15 % from 10000
C29_Witness ==
    /\ ret.op = "update_drawdown"
    /\ ret.n = 2
    /\ ret.state0.total_equity = 10400
    /\ ret.state0.peak_equity = 10000
    /\ FracEq(ret.state0.current_drawdown_pct, Frac(1500, 1))
    /\ state.peak_equity = 10400
    /\ SamePct(state.current_drawdown_pct, Zero)

\* C32: in every iteration of the paper and live loops in which the breaker
\* that wins is drawdown or stale data while the mode is LONG, the driver
\* calls the engine to sell the position in that iteration, whether or not
\* the strategy was already paused.
C32_HardBreakerAlwaysFlattens ==
    ( /\ driver.last.op \in {"paper", "live"}
      /\ driver.last.cb \in {"max_drawdown", "stale_data"}
      /\ driver.last.mode0 = "long" )
    => driver.last.called = "sell"

\* C33: once state.paused is true no step of a session sets it back to
\* false, and pause_reason stays the reason of the breaker that set the
\* pause, also when a breaker of higher priority returns later.
C33_PauseLatches ==
    [][ state.paused => /\ state'.paused
                        /\ state'.pause_reason = state.pause_reason ]_vars

\* paused by the spread, then an iteration in which the drawdown wins
C33_Witness ==
    /\ driver.last.op = "live"
    /\ driver.last.paused0
    /\ driver.pause_cb = "spread_too_wide"
    /\ driver.last.cb = "max_drawdown"
    /\ state.paused
    /\ state.pause_reason = "Spread exceeds limit"

\* a FLAT, unpaused pass of the candle loop with no breaker returning, at a
\* close the buy threshold or more below the tracked peak
BacktestDrop ==
    /\ driver.last.op = "backtest"
    /\ driver.last.mode0 = "flat"
    /\ ~driver.last.paused
    /\ driver.last.cb = None
    /\ state.last_peak # Null
    /\ (state.last_peak - Mid(market)) * 10000 >= BuyThresholdUsed * state.last_peak

BacktestBuys ==
    BacktestDrop => /\ driver.last.called = "buy"
                    /\ driver.last.success
                    /\ state.state = "long"

\* C34: in a backtest the heartbeat handed to the breakers is the timestamp
\* of the candle, and the stale-data breaker never returns on a candle; a
\* FLAT unpaused run on which no breaker returns buys on the candle whose
\* close is the buy threshold or more below the tracked peak.
C34_BacktestNeverStale ==
    driver.last.op = "backtest" =>
        /\ driver.last.cb # "stale_data"
        /\ BacktestBuys

\* generate_signal answers BUY only in FLAT mode and SELL only in LONG mode,
\* and the drivers call the engine accordingly
SignalsAndCallsGated ==
    [][ driver'.steps # driver.steps =>
          LET last == driver'.last IN
          /\ last.signal = "buy" => last.mode0 = "flat"
          /\ last.signal = "sell" => last.mode0 = "long"
          /\ last.called = "buy" => last.mode0 = "flat"
          /\ (last.called = "sell" /\ last.via = "signal") => last.mode0 = "long" ]_vars

\* the executed orders of paper sessions and backtests alternate
PaperTradesAlternate ==
    [][ (driver'.steps # driver.steps /\ driver.kind # "live") =>
          ( (driver'.last.success /\ driver'.last.called \in {"buy", "sell"})
            => driver'.last.called # driver.last.side ) ]_vars

\* C36: within a session generate_signal answers BUY only in FLAT mode and
\* SELL only in LONG mode, no driver calls the engine to buy in LONG mode or
\* to sell on a signal in FLAT mode, and the orders the engine reports as
\* executed alternate: none has the side of the executed order before it.
C36_TradesAlternate ==
    [][ driver'.steps # driver.steps =>
          LET last == driver'.last IN
          /\ last.signal = "buy" => last.mode0 = "flat"
          /\ last.signal = "sell" => last.mode0 = "long"
          /\ last.called = "buy" => last.mode0 = "flat"
          /\ (last.called = "sell" /\ last.via = "signal") => last.mode0 = "long"
          /\ (last.success /\ last.called \in {"buy", "sell"})
                => last.called # driver.last.side ]_vars

\* ---------------------------------------------------------------------------
\* The trade counters of a session: update_state_after_buy and
\* update_state_after_sell in any order on a fresh StrategyStateData
\* ---------------------------------------------------------------------------
MaxTrades == 5              \* calls of the two updates, max_consecutive_losses of them
StreakPnls == {0 - 100, 0, 250}

InitStreaks ==
    /\ state = StrategyStateData
    /\ strategy = VolatilityHarvester(buy_threshold_pct, sell_threshold_pct, TRUE)
    /\ risk = RiskManager
    /\ market = Snapshot(50000)
    /\ candles = NoCandles
    /\ heartbeat = Today
    /\ now = Today
    /\ settings = Settings(FALSE, TRUE)
    /\ ret = [op |-> "none", n |-> 0, fill_price |-> Null, qty |-> 0,
              realized_pnl |-> 0, state0 |-> StrategyStateData]
    /\ exchange = NoExchange
    /\ engine = NoEngine
    /\ portfolio = NoPortfolio
    /\ driver = NoDriver

BuyUpdate ==
    /\ ret.n < MaxTrades
    /\ \E fill_price \in {47500} :
         /\ state' = update_state_after_buy(state, fill_price, 20000, now)
         /\ ret' = [op |-> "update_state_after_buy", n |-> ret.n + 1,
                    fill_price |-> fill_price, qty |-> 20000, realized_pnl |-> 0,
                    state0 |-> state]
    /\ UNCHANGED updateFrame

SellUpdate ==
    /\ ret.n < MaxTrades
    /\ \E realized_pnl \in StreakPnls :
         /\ state' = update_state_after_sell(state, 50500, realized_pnl, now)
         /\ ret' = [op |-> "update_state_after_sell", n |-> ret.n + 1,
                    fill_price |-> 50500, qty |-> 0,
                    realized_pnl |-> realized_pnl, state0 |-> state]
    /\ UNCHANGED updateFrame

NextStreaks == BuyUpdate \/ SellUpdate

SpecStreaks == InitStreaks /\ [][NextStreaks]_vars

\* C37: after any sequence of update_state_after_buy and
\* update_state_after_sell calls on a fresh state at most one of
\* consecutive_wins and consecutive_losses is not 0, winning_trades is at
\* most total_trades, consecutive_wins at most winning_trades and
\* consecutive_losses at most total_trades - winning_trades.
C37_StreakCounters ==
    /\ state.consecutive_wins = 0 \/ state.consecutive_losses = 0
    /\ state.consecutive_wins >= 0 /\ state.consecutive_losses >= 0
    /\ state.winning_trades <= state.total_trades
    /\ state.consecutive_wins <= state.winning_trades
    /\ state.consecutive_losses <= state.total_trades - state.winning_trades

\* a win, then two losses, the second in a row without a buy between
C37_Witness ==
    /\ ret.op = "update_state_after_sell"
    /\ ret.state0.state = "flat"
    /\ state.total_trades = 3
    /\ state.winning_trades = 1
    /\ state.consecutive_wins = 0
    /\ state.consecutive_losses = 2

\* C38: update_state_after_sell with a realized P&L of exactly 0 counts the
\* trade as a loss: consecutive_losses grows by one, consecutive_wins
\* becomes 0 and winning_trades stays, so that break-even sells alone take
\* consecutive_losses to the limit at which check_consecutive_losses pauses.
C38_BreakEvenIsLoss ==
    /\ (ret.op = "update_state_after_sell" /\ ret.realized_pnl = 0) =>
          /\ state.consecutive_losses = ret.state0.consecutive_losses + 1
          /\ state.consecutive_wins = 0
          /\ state.winning_trades = ret.state0.winning_trades
          /\ state.total_trades = ret.state0.total_trades + 1
    /\ check_consecutive_losses(state).pause
          <=> state.consecutive_losses >= max_consecutive_losses

\* five break-even sells and nothing else: the breaker pauses
C38_Witness ==
    /\ ret.op = "update_state_after_sell"
    /\ ret.realized_pnl = 0
    /\ state.realized_pnl = 0
    /\ state.total_trades = max_consecutive_losses
    /\ state.winning_trades = 0
    /\ state.consecutive_losses = max_consecutive_losses
    /\ ~check_consecutive_losses(ret.state0).pause
    /\ check_consecutive_losses(state).pause

\* ---------------------------------------------------------------------------
\* The two places that keep peak_equity and current_drawdown_pct:
\* Portfolio.sync_state, alone in the paper and live loops, and followed by
\* RiskManager.update_drawdown in the backtester
\* ---------------------------------------------------------------------------
SyncCash == {0, 4000, 9000}
SyncBtc == {0, 2000}
SyncPrices == {40000, 50000, 60000}
\* total_equity and peak_equity before the call
SyncEquityPairs == {<<0, 0>>, <<10000, 10000>>, <<4500, 5000>>}

InitDrawdown ==
    /\ \E cash \in SyncCash, btc \in SyncBtc : portfolio = Portfolio(cash, btc)
    /\ \E eq \in SyncEquityPairs :
         state = [StrategyStateData EXCEPT
                     !.total_equity = eq[1], !.peak_equity = eq[2],
                     !.current_drawdown_pct = DrawdownOf(eq[2], eq[1])]
    /\ strategy = VolatilityHarvester(buy_threshold_pct, sell_threshold_pct, TRUE)
    /\ risk = RiskManager
    /\ market = Snapshot(50000)
    /\ candles = NoCandles
    /\ heartbeat = Today
    /\ now = Today
    /\ settings = Settings(FALSE, TRUE)
    /\ ret = [op |-> "none", n |-> 0, state0 |-> StrategyStateData,
              synced |-> StrategyStateData]
    /\ exchange = NoExchange
    /\ engine = NoEngine
    /\ driver = NoDriver

drawdownFrame == <<risk, candles, heartbeat, now, strategy, settings, exchange,
                   engine, portfolio, driver>>

\* portfolio.sync_state(state, market_data.mid) of the paper and live loops
SyncState ==
    /\ ret.n < MaxCalls
    /\ \E p \in SyncPrices :
         LET synced == sync_state(portfolio, state, Mid(Snapshot(p))) IN
         /\ market' = Snapshot(p)
         /\ state' = synced
         /\ ret' = [op |-> "sync_state", n |-> ret.n + 1, state0 |-> state,
                    synced |-> synced]
    /\ UNCHANGED drawdownFrame

\* portfolio.sync_state(state, price); risk_manager.update_drawdown(state)
\* at the end of every candle of a backtest
SyncStateUpdateDrawdown ==
    /\ ret.n < MaxCalls
    /\ \E p \in SyncPrices :
         LET synced == sync_state(portfolio, state, Mid(Snapshot(p))) IN
         /\ market' = Snapshot(p)
         /\ state' = update_drawdown(synced)
         /\ ret' = [op |-> "sync_state, update_drawdown", n |-> ret.n + 1,
                    state0 |-> state, synced |-> synced]
    /\ UNCHANGED drawdownFrame

NextDrawdown == SyncState \/ SyncStateUpdateDrawdown

SpecDrawdown == InitDrawdown /\ [][NextDrawdown]_vars

\* update_drawdown alone on the state the call found, with the equity
\* sync_state computed
UpdatedAlone == update_drawdown([ret.state0 EXCEPT
                                    !.total_equity = ret.synced.total_equity])

\* C39: update_drawdown run right after sync_state leaves peak_equity and
\* current_drawdown_pct as sync_state set them, and on a state whose
\* peak_equity is above 0 update_drawdown alone, given the same equity, sets
\* the peak_equity and current_drawdown_pct that sync_state sets.
C39_DrawdownUpdatersAgree ==
    ret.op # "none" =>
        /\ ret.op = "sync_state, update_drawdown" =>
              /\ state.peak_equity = ret.synced.peak_equity
              /\ SamePct(state.current_drawdown_pct, ret.synced.current_drawdown_pct)
        /\ update_drawdown(ret.synced).peak_equity = ret.synced.peak_equity
        /\ SamePct(update_drawdown(ret.synced).current_drawdown_pct,
                   ret.synced.current_drawdown_pct)
        /\ ret.state0.peak_equity > 0 =>
              /\ UpdatedAlone.peak_equity = ret.synced.peak_equity
              /\ SamePct(UpdatedAlone.current_drawdown_pct,
                         ret.synced.current_drawdown_pct)

\* the backtester's pair of calls at a new peak, after a drawdown of 10 %
C39_Witness ==
    /\ ret.op = "sync_state, update_drawdown"
    /\ ret.state0.peak_equity = 5000
    /\ ret.state0.total_equity = 4500
    /\ ret.synced.total_equity = 10200
    /\ state.peak_equity = 10200
    /\ SamePct(state.current_drawdown_pct, Zero)

\* ---------------------------------------------------------------------------
\* The control API: POST /start and POST /stop handled on one event loop.
\* A handler runs without interruption from one await that really suspends
\* to the next. FakeExchange.connect, CoinbaseAdapter.connect and
\* BinanceAdapter.connect return without suspending; the HTTP requests of
\* get_balances and get_ticker suspend.
\* ---------------------------------------------------------------------------
MaxHttp == 3                \* requests received by the API
Http == 1 .. MaxHttp
Modes == {"paper", "live"}
\* a trader object carries the number of the request that constructed it
NoTrader == [mode |-> None, running |-> FALSE, task |-> "none", iterations |-> 0]
NewRequest == [op |-> "none", pc |-> "new"]
Server == [kind |-> "server", paper_trader |-> 0, live_trader |-> 0,
           requests |-> [r \in Http |-> NewRequest],
           traders |-> [t \in Http |-> NoTrader]]

InitServer ==
    /\ state = StrategyStateData
    /\ strategy = VolatilityHarvester(buy_threshold_pct, sell_threshold_pct, TRUE)
    /\ risk = RiskManager
    /\ market = Snapshot(50000)
    /\ candles = NoCandles
    /\ heartbeat = Today
    /\ now = Today
    /\ settings = Settings(FALSE, TRUE)
    /\ ret = None
    /\ exchange = NoExchange
    /\ engine = NoEngine
    /\ portfolio = NoPortfolio
    /\ driver = Server

serverFrame == <<state, risk, market, candles, heartbeat, now, strategy, settings,
                 ret, exchange, engine, portfolio>>

\* the module-level paper_trader / live_trader
GlobalTrader(mode) == IF mode = "paper" THEN driver.paper_trader ELSE driver.live_trader
AlreadyRunning(mode) ==
    GlobalTrader(mode) # 0 /\ driver.traders[GlobalTrader(mode)].running

\* POST /start {"mode": "paper"}: the already-running test, the construction and the whole
\* of PaperTrader.start run in one piece
StartTradingPaper(r) ==
    /\ driver.requests[r].pc = "new"
    /\ IF AlreadyRunning("paper")
       THEN driver' = [driver EXCEPT !.requests[r] = [op |-> "start paper", pc |-> "400"]]
       ELSE driver' = [driver EXCEPT
                          !.paper_trader = r,
                          !.traders[r] = [mode |-> "paper", running |-> TRUE,
                                          task |-> "running", iterations |-> 0],
                          !.requests[r] = [op |-> "start paper", pc |-> "started"]]
    /\ UNCHANGED serverFrame

\* POST /start {"mode": "live"}: the already-running test, the construction and
\* LiveTrader.start up to its first request, get_balances
StartTradingLive(r) ==
    /\ driver.requests[r].pc = "new"
    /\ IF AlreadyRunning("live")
       THEN driver' = [driver EXCEPT !.requests[r] = [op |-> "start live", pc |-> "400"]]
       ELSE driver' = [driver EXCEPT
                          !.live_trader = r,
                          !.traders[r] = [NoTrader EXCEPT !.mode = "live"],
                          !.requests[r] = [op |-> "start live", pc |-> "get_balances"]]
    /\ UNCHANGED serverFrame

\* the balances arrive (or the request raises and the handler answers 500);
\* LiveTrader.start goes on to get_ticker
LiveStartBalances(r) ==
    /\ driver.requests[r].pc = "get_balances"
    /\ \E ok \in BOOLEAN :
         driver' = [driver EXCEPT
                       !.requests[r].pc = IF ok THEN "get_ticker" ELSE "500"]
    /\ UNCHANGED serverFrame

\* the ticker arrives: LiveTrader.start sets running and creates the loop task
LiveStartTicker(r) ==
    /\ driver.requests[r].pc = "get_ticker"
    /\ driver' = [driver EXCEPT
                     !.traders[r].running = TRUE,
                     !.traders[r].task = "running",
                     !.requests[r].pc = "started"]
    /\ UNCHANGED serverFrame

\* POST /stop: the paper trader if it runs, else the live trader if it runs
StopTrading(r) ==
    /\ driver.requests[r].pc = "new"
    /\ IF AlreadyRunning("paper")
       THEN driver' = [driver EXCEPT
                          !.traders[driver.paper_trader].running = FALSE,
                          !.requests[r] = [op |-> "stop", pc |-> "stopped paper"]]
       ELSE IF AlreadyRunning("live")
       THEN driver' = [driver EXCEPT
                          !.traders[driver.live_trader].running = FALSE,
                          !.requests[r] = [op |-> "stop", pc |-> "stopped live"]]
       ELSE driver' = [driver EXCEPT !.requests[r] = [op |-> "stop", pc |-> "400"]]
    /\ UNCHANGED serverFrame

\* _trading_loop: while self.running, one more iteration
TradingLoopIteration(t) ==
    /\ driver.traders[t].task = "running"
    /\ driver.traders[t].running
    /\ driver.traders[t].iterations < 1
    /\ driver' = [driver EXCEPT !.traders[t].iterations = @ + 1]
    /\ UNCHANGED serverFrame

\* _trading_loop finds running False and returns
TradingLoopExit(t) ==
    /\ driver.traders[t].task = "running"
    /\ ~driver.traders[t].running
    /\ driver' = [driver EXCEPT !.traders[t].task = "done"]
    /\ UNCHANGED serverFrame

NextServer ==
    \E r \in Http :
        \/ StartTradingPaper(r)
        \/ StartTradingLive(r)
        \/ LiveStartBalances(r)
        \/ LiveStartTicker(r)
        \/ StopTrading(r)
        \/ TradingLoopIteration(r)
        \/ TradingLoopExit(r)

SpecServer == InitServer /\ [][NextServer]_vars

\* the loop tasks of a mode that will go on iterating
Loops(mode) ==
    {t \in Http : /\ driver.traders[t].mode = mode
                  /\ driver.traders[t].task = "running"
                  /\ driver.traders[t].running}

\* C35: under any interleaving of start requests for the same mode at most
\* one trading loop of that mode is running, and every running loop belongs
\* to the trader the module-level variable names, the one stop() acts on.
C35_OneReachableLoop ==
    \A mode \in Modes :
        /\ Cardinality(Loops(mode)) <= 1
        /\ \A t \in Loops(mode) : GlobalTrader(mode) = t

\* the same for the paper mode alone
PaperOneReachableLoop ==
    /\ Cardinality(Loops("paper")) <= 1
    /\ \A t \in Loops("paper") : driver.paper_trader = t

====
